---- MODULE Spec2Model ----
(***************************************************************************)
(* A model of gewe-openclaw: the webhook dedupe cache                      *)
(* (src/src/monitor.ts), the download queue (src/src/download-queue.ts),   *)
(* the inbound handler and its download job (src/src/constants.ts), the    *)
(* rust-silk installer (src/unnamed/part_002), the outbound delivery and   *)
(* its media helpers (src/unnamed/part_001) and the media endpoint         *)
(* (src/unnamed/part_003).                                                 *)
(*                                                                         *)
(* The module holds several specifications over one set of variables; each *)
(* one drives one subsystem and leaves the variables of the others alone:  *)
(*   SpecQueue    GeweDownloadQueue with jobs that resolve or reject       *)
(*   SpecInstall  concurrent ensureRustSilkBinary callers                  *)
(*   SpecInbound  webhook requests -> onMessage -> handleGeweInbound ->    *)
(*                dispatch or download job                                 *)
(*   SpecDedupe   webhook requests and the dedupe cache under a running    *)
(*                clock                                                    *)
(*   SpecChecksum one download-verify-extract pass of the installer        *)
(*   SpecWebhook  one HTTP request through the webhook server              *)
(*   SpecPolicy   the allowlist functions of policy.ts on their own        *)
(*   SpecGates    one message through the gates of handleGeweInbound       *)
(*                under every policy and allowlist combination             *)
(*   SpecDm       direct messages in flight together under every dmPolicy  *)
(*   SpecMention  one message through the mention gate of a group          *)
(*   SpecImage    image messages, their download jobs and the clock        *)
(*   SpecSilk     looksLikeSilkVoice on buffers, content types, file names *)
(*   SpecTmpDir   the temp directory of the four functions that make one   *)
(*   SpecThumb    normalizeThumbBuffer over inputs and resize results      *)
(*   SpecDeliver  deliverGewePayload for a payload with a media URL        *)
(*   SpecCleanup  the installer beside an older version directory          *)
(*   SpecMedia    one HTTP request through the media endpoint              *)
(*   SpecSeen     isDuplicate calls on the dedupe cache over time          *)
(*   SpecDelay    the delay range of the queue and the delays drawn        *)
(*   SpecOrder    messages that fail more than one check of the inbound    *)
(*                path                                                     *)
(*   SpecVideo    the video branch of deliverGewePayload                   *)
(*   SpecDecode   the decoder candidates of decodeSilkVoice                *)
(*   SpecCaches   the installer's caches from an empty install root        *)
(*   SpecPayload  the link, media and text branches of deliverGewePayload  *)
(* JavaScript runs one callback at a time, so an action is the code from   *)
(* one await (or the entry of a callback) to the next await.               *)
(***************************************************************************)
EXTENDS Integers, Sequences, FiniteSets, TLC

VARIABLES
    \* ---- clock (Date.now()) ----
    now,
    \* ---- GeweDownloadQueue (download-queue.ts) ----
    queue,        \* this.queue: sequence of jobs
    seen,         \* this.seen: key -> timestamp, NONE when absent
    running,      \* this.running
    workers,      \* live invocations of run(): [job, pc, step]
    nextId,       \* serial number given to the next accepted job
    ret,          \* the last enqueue call: [key, ok, at]
    started,      \* ids of the jobs whose run() was called, in call order
    settled,      \* ids of the jobs whose run() promise resolved or rejected
    rejected,     \* ids of the jobs whose run() promise rejected
    unhandled,    \* rejections of `void this.run()` nobody handles
    accepted,     \* every job enqueue has accepted so far (history)
    \* ---- rust-silk installer (unnamed/part_002: silk.ts) ----
    callers,           \* calls of ensureRustSilkBinary: [pc, version, key, isLatest, inst, result]
    installCache,      \* installCache: cache key -> in-flight install, 0 when absent
    resolvedPathCache, \* resolvedPathCache: cache key -> "absent" | "null" | "path"
    installs,          \* calls of installRustSilk: [key, isLatest, pc, result, downloaded,
                       \*  listed]
    disk,              \* folders under the install root that hold the binary
    assetOk,           \* resolveRustSilkAsset(platform, arch) is not null
    overlap,           \* pairs of calls that were in flight at the same time (history)
    archive,           \* one download of installRustSilk under verification:
                       \* [pc, silkSha256, allowUnverified, sum, assetSum, actual,
                       \*  expected, extracted, installed]
    \* ---- webhook server and inbound handler (monitor.ts, constants.ts: inbound.ts) ----
    SEEN_MESSAGES,     \* monitor.ts SEEN_MESSAGES: key -> timestamp, NONE when absent
    reqs,              \* webhook requests, numbered in the order onMessage is called:
                       \* [pc, msg, at, handled, dropped, calls, enq]
    cfg,               \* the account and channel configuration
    pairingPending,    \* senders with a pending pairing request (pairing store)
    pairingReplies,    \* sender -> pairing replies sent or attempted
    webhookErrors,     \* `gewe webhook error` lines logged through onError
    jobErrors,         \* `gewe: media download failed` lines logged by download jobs
    \* ---- webhook server, HTTP side (monitor.ts) ----
    secret,            \* account.config.webhookSecret, trimmed; "" when not set
    http,              \* the request being served: [pc, req, body, streamError,
                       \*  responses, onMessage, errors, respondedFirst]
    \* ---- inputs and results of the policy functions (policy.ts) ----
    policy,            \* [pc, groupPolicy, outer, inner, senderId, senderName,
                       \*  outerMatch, innerMatch, groupAllow]
    \* ---- one call of a function of the media code: [fn, pc, in, out] ----
    probe

queueVars == <<queue, seen, running, workers, nextId, ret, started, settled,
               rejected, unhandled, accepted>>
installVars == <<callers, installCache, resolvedPathCache, installs, disk,
                 assetOk, overlap, archive>>
inboundVars == <<SEEN_MESSAGES, reqs, cfg, pairingPending, pairingReplies,
                 webhookErrors, jobErrors>>
webhookVars == <<secret, http>>
pureVars == <<policy, probe>>
vars == <<now, queueVars, installVars, inboundVars, webhookVars, pureVars>>

NONE == -1

Keys == {"app:1", "app:2", "app:3"}

\* ------------------------------------------------------------------ clock

\* src/src/download-queue.ts:3 and src/src/monitor.ts:22
QUEUE_DEDUPE_TTL_MS == 12 * 60 * 60 * 1000

HalfTtl == QUEUE_DEDUPE_TTL_MS \div 2

\* The clock advances by half a TTL or by one millisecond, so that an entry
\* is seen younger than, exactly as old as, and older than the TTL.
MaxHalfTtls == 2
MaxMs == 1

ClockCanAdvance(d) ==
    /\ now + d <= MaxHalfTtls * HalfTtl + MaxMs
    /\ (d = 1) => (now % HalfTtl) < MaxMs
    /\ (d = HalfTtl) => (now \div HalfTtl) < MaxHalfTtls

Tick ==
    \E d \in {1, HalfTtl} :
        /\ ClockCanAdvance(d)
        /\ now' = now + d

\* ----------------------------------------------------- rust-silk installer

MaxCallers == 2
Callers == 1..MaxCallers

\* account.config.silkVersion as given: the sentinel, or a pinned version
\* (normalizeVersion adds the leading "v" of its tag)
VersionInputs == {"latest", "1.0"}

\* what the redirect of <repo>/releases/latest can name
LatestTags == {"v1.0", "v2.0"}

startsWithV(s) == s \in {"v1.0", "v2.0"}
sliceV(s) == CASE s = "v1.0" -> "1.0" [] s = "v2.0" -> "2.0" [] OTHER -> s
prependV(s) == CASE s = "1.0" -> "v1.0" [] s = "2.0" -> "v2.0" [] OTHER -> s

\* normalizeVersion(version)
normalizeVersion(version) ==
    [tag |-> IF startsWithV(version) THEN version ELSE prependV(version),
     folder |-> IF startsWithV(version) THEN sliceV(version) ELSE version]

\* resolveRequestedVersion once resolveLatestTag has answered with latestTag
\* ("" when the lookup failed or named no tag)
resolveRequestedVersion(versionInput, latestTag) ==
    IF versionInput = "latest"
    THEN IF latestTag # ""
         THEN [tag |-> latestTag,
               folder |-> IF startsWithV(latestTag) THEN sliceV(latestTag) ELSE latestTag,
               isLatest |-> TRUE]
         ELSE [tag |-> "latest", folder |-> "latest", isLatest |-> TRUE]
    ELSE [tag |-> normalizeVersion(versionInput).tag,
          folder |-> normalizeVersion(versionInput).folder,
          isLatest |-> FALSE]

\* cacheKey: baseUrl, asset, platform and arch are the same for every call of
\* one process with one base URL, which leaves the tag and the folder
cacheKey(versionInput, resolved) == <<resolved.tag, resolved.folder>>

CacheKeys ==
    {<<r.tag, r.folder>> :
        r \in {resolveRequestedVersion(v, t) : v \in VersionInputs, t \in LatestTags \cup {""}}}
    \cup {<<"", "">>}

Folders == {k[2] : k \in CacheKeys}

InFlight(c) == callers[c].pc \in {"lookup", "resolved", "waiting"}

\* ensureRustSilkBinary(account) up to `await resolveRequestedVersion(...)`
Call(c) ==
    /\ callers[c].pc = "idle"
    /\ \A d \in Callers : d < c => callers[d].pc # "idle"
    /\ \E auto \in BOOLEAN, v \in VersionInputs :
         IF ~auto \/ ~assetOk
         THEN callers' = [callers EXCEPT ![c].pc = "done", ![c].result = "null"]
         ELSE callers' = [callers EXCEPT
                 ![c].pc = IF v = "latest" THEN "lookup" ELSE "resolved",
                 ![c].version = v,
                 ![c].key = IF v = "latest" THEN <<"", "">>
                            ELSE cacheKey(v, resolveRequestedVersion(v, "")),
                 ![c].isLatest = (v = "latest")]
    /\ overlap' = overlap \cup
                    {{c, d} : d \in {x \in Callers : x # c /\ InFlight(x)
                                                      /\ callers'[c].pc # "done"}}
    /\ UNCHANGED <<installCache, resolvedPathCache, installs, disk, assetOk>>

\* resolveLatestTag(baseUrl).catch(() => null) has answered
LookupDone(c) ==
    /\ callers[c].pc = "lookup"
    /\ \E t \in LatestTags \cup {""} :
         callers' = [callers EXCEPT
             ![c].pc = "resolved",
             ![c].key = cacheKey("latest", resolveRequestedVersion("latest", t))]
    /\ UNCHANGED <<installCache, resolvedPathCache, installs, disk, assetOk, overlap>>

pathCachedNonNull(cache, key) == cache[key] = "path"

\* `resolvedPathCache.has(cacheKey)`
pathCached(cache, key) == cache[key] # "absent"

installInFlightNever(cache, key) == FALSE

\* `installCache.has(cacheKey)`
installInFlight(cache, key) == cache[key] # 0

cleanupOldVersionsKeepsAll(dirs, keepFolder, listed) == dirs

\* cleanupOldVersions(installRoot, keepFolder) when every rm succeeds: each
\* directory readdir lists goes but keepFolder; a readdir that fails is taken
\* for an empty listing (listed = FALSE) and nothing is removed
cleanupOldVersions(dirs, keepFolder, listed) ==
    IF listed THEN dirs \cap {keepFolder} ELSE dirs

\* installRustSilk up to its first await, for a new call
installStart(key, isLatest) ==
    IF key[2] \in disk
    THEN IF isLatest /\ key[2] # "latest"
         THEN [key |-> key, isLatest |-> isLatest, pc |-> "cleanupFound",
               result |-> "none", downloaded |-> FALSE, listed |-> FALSE]
         ELSE [key |-> key, isLatest |-> isLatest, pc |-> "resolved",
               result |-> "path", downloaded |-> FALSE, listed |-> FALSE]
    ELSE [key |-> key, isLatest |-> isLatest, pc |-> "mkdtemp",
          result |-> "none", downloaded |-> FALSE, listed |-> FALSE]

\* ensureRustSilkBinary after the version is resolved: the two caches, then
\* the install with its promise stored in installCache
AfterResolve(c) ==
    /\ callers[c].pc = "resolved"
    /\ LET key == callers[c].key IN
       IF pathCached(resolvedPathCache, key)
       THEN /\ callers' = [callers EXCEPT ![c].pc = "done",
                                          ![c].result = resolvedPathCache[key]]
            /\ UNCHANGED <<installCache, installs>>
       ELSE IF installInFlight(installCache, key)
       THEN /\ callers' = [callers EXCEPT ![c].pc = "waiting",
                                          ![c].inst = installCache[key]]
            /\ UNCHANGED <<installCache, installs>>
       ELSE /\ installs' = Append(installs, installStart(key, callers[c].isLatest))
            /\ installCache' = [installCache EXCEPT ![key] = Len(installs) + 1]
            /\ callers' = [callers EXCEPT ![c].pc = "waiting",
                                          ![c].inst = Len(installs) + 1]
    /\ UNCHANGED <<resolvedPathCache, disk, assetOk, overlap>>

\* one await of installRustSilk has answered; ok tells how, listed whether
\* the readdir of cleanupOldVersions gave the listing
installStep(i, ok, listed) ==
    LET it == installs[i]
        cleans == it.isLatest /\ it.key[2] # "latest"
        fails == [it EXCEPT !.pc = "resolved", !.result = "null"]
    IN CASE it.pc = "mkdtemp" ->
              \* fs.mkdtemp is outside the try: its error rejects the promise
              /\ installs' = [installs EXCEPT ![i] =
                     IF ok THEN [it EXCEPT !.pc = "download", !.downloaded = TRUE]
                     ELSE [it EXCEPT !.pc = "rejected"]]
              /\ UNCHANGED disk
         [] it.pc = "download" ->
              \* downloadFile, resolveChecksum, sha256File, extractArchive,
              \* findBinary: a failure of any of them installs nothing
              /\ installs' = [installs EXCEPT ![i] =
                     IF ok THEN [it EXCEPT !.pc = "copy"] ELSE fails]
              /\ UNCHANGED disk
         [] it.pc = "copy" ->
              \* mkdir, copyFile, chmod, writeFile of install.json: with ok
              \* the binary is copied; the marker may still fail after it
              /\ \/ installs' = [installs EXCEPT ![i] =
                        IF ~ok THEN fails
                        ELSE IF cleans THEN [it EXCEPT !.pc = "cleanupNew"]
                        ELSE [it EXCEPT !.pc = "resolved", !.result = "path"]]
                 \/ ok /\ installs' = [installs EXCEPT ![i] = fails]
              /\ disk' = IF ok THEN disk \cup {it.key[2]} ELSE disk
         [] it.pc = "cleanupNew" ->
              \* cleanupOldVersions inside the try: its error is caught
              /\ ~ok => listed
              /\ installs' = [installs EXCEPT ![i] =
                     IF ok THEN [it EXCEPT !.pc = "resolved", !.result = "path",
                                           !.listed = listed]
                     ELSE [fails EXCEPT !.listed = listed]]
              /\ IF ok THEN disk' = cleanupOldVersions(disk, it.key[2], listed)
                 ELSE \E d \in SUBSET disk : disk \cap {it.key[2]} \subseteq d /\ disk' = d
         [] it.pc = "cleanupFound" ->
              \* cleanupOldVersions before the try: its error rejects the promise
              /\ ~ok => listed
              /\ installs' = [installs EXCEPT ![i] =
                     IF ok THEN [it EXCEPT !.pc = "resolved", !.result = "path",
                                           !.listed = listed]
                     ELSE [it EXCEPT !.pc = "rejected", !.listed = listed]]
              /\ IF ok THEN disk' = cleanupOldVersions(disk, it.key[2], listed)
                 ELSE \E d \in SUBSET disk : disk \cap {it.key[2]} \subseteq d /\ disk' = d

InstallStep ==
    \E i \in 1..Len(installs), ok \in BOOLEAN :
        /\ installs[i].pc \in {"mkdtemp", "download", "copy",
                               "cleanupNew", "cleanupFound"}
        /\ installStep(i, ok, TRUE)
        /\ UNCHANGED <<callers, installCache, resolvedPathCache, assetOk, overlap>>

\* cleanupOldVersions when its readdir fails: `.catch(() => [])` makes the
\* listing empty, nothing is removed and the cleanup succeeds
InstallStepUnlisted ==
    \E i \in 1..Len(installs) :
        /\ installs[i].pc \in {"cleanupNew", "cleanupFound"}
        /\ installStep(i, TRUE, FALSE)
        /\ UNCHANGED <<callers, installCache, resolvedPathCache, assetOk, overlap>>

\* `.then((result) => { resolvedPathCache.set(cacheKey, result); ... })`
InstallThen ==
    \E i \in 1..Len(installs) :
        /\ installs[i].pc = "resolved"
        /\ resolvedPathCache' = [resolvedPathCache EXCEPT ![installs[i].key] = installs[i].result]
        /\ installs' = [installs EXCEPT ![i].pc = "then"]
        /\ UNCHANGED <<callers, installCache, disk, assetOk, overlap>>

\* `.finally(() => { installCache.delete(cacheKey); })`, after .then or
\* straight after a rejection; the promise handed to the callers settles
InstallFinally ==
    \E i \in 1..Len(installs) :
        /\ installs[i].pc \in {"then", "rejected"}
        /\ installCache' = [installCache EXCEPT ![installs[i].key] = 0]
        /\ installs' = [installs EXCEPT ![i].pc =
               IF installs[i].pc = "then" THEN "settled" ELSE "settledRejected"]
        /\ UNCHANGED <<callers, resolvedPathCache, disk, assetOk, overlap>>

\* a caller awaiting installPromise gets its value, or its rejection
CallerResume(c) ==
    /\ callers[c].pc = "waiting"
    /\ installs[callers[c].inst].pc \in {"settled", "settledRejected"}
    /\ callers' = [callers EXCEPT
           ![c].pc = "done",
           ![c].result = IF installs[callers[c].inst].pc = "settled"
                         THEN installs[callers[c].inst].result ELSE "throw"]
    /\ UNCHANGED <<installCache, resolvedPathCache, installs, disk, assetOk, overlap>>

\* ------------------------------------------- checksum of the download

\* asset.name, and another file a manifest may list
AssetName == "rust-silk-x86_64-unknown-linux-gnu.tar.xz"
OtherName == "rust-silk-aarch64-apple-darwin.tar.xz"

\* Stand-ins for 64-digit hex strings ("aa", "AA", "bb") and for a token that
\* is not one ("zz")
isHex64(h) == h \in {"aa", "AA", "bb"}
hashToLowerCase(h) == IF h = "AA" THEN "aa" ELSE h

\* String.prototype.trim over the configured values and the header values
\* the model uses
trim(str) ==
    CASE str = "  " -> ""
      [] str = " AA " -> "AA"
      [] str = " s3cret " -> "s3cret"
      [] OTHER -> str

\* a line of a checksum file: "<hash>  <name>", or a lone token (name "")
Line(hash, name) == [hash |-> hash, name |-> name]

\* parseChecksum(contents, assetName): the hash of the first line that has
\* the form "<64 hex> <name>" and names the asset, "" for null
RECURSIVE parseChecksum(_, _)
parseChecksum(contents, assetName) ==
    IF contents = <<>> THEN ""
    ELSE LET line == Head(contents) IN
         IF isHex64(line.hash) /\ line.name # "" /\ line.name = assetName
         THEN hashToLowerCase(line.hash)
         ELSE parseChecksum(Tail(contents), assetName)

\* `assetSum.trim().split(/\s+/)[0]` when it is 64 hex digits, else ""
firstToken(contents) ==
    IF contents # <<>> /\ isHex64(Head(contents).hash)
    THEN hashToLowerCase(Head(contents).hash) ELSE ""

\* resolveChecksum from the per-asset file on
checksumFromAssetSum(assetSum, assetName) ==
    IF assetSum = <<>> THEN ""
    ELSE IF parseChecksum(assetSum, assetName) # "" THEN parseChecksum(assetSum, assetName)
    ELSE firstToken(assetSum)

\* resolveChecksum as a whole: the configured hash, else sha256.sum, else
\* <asset>.sha256; "" for null
resolveChecksum(silkSha256, sum, assetSum, assetName) ==
    IF trim(silkSha256) # "" THEN hashToLowerCase(trim(silkSha256))
    ELSE IF sum # <<>> /\ parseChecksum(sum, assetName) # ""
    THEN parseChecksum(sum, assetName)
    ELSE checksumFromAssetSum(assetSum, assetName)

hashEqualsAlways(actual, expectedHash) == TRUE

\* `actual !== expectedHash` negated
hashEquals(actual, expectedHash) == actual = expectedHash

\* `!expectedHash && silkAllowUnverified !== true`
missingChecksumIsFatal(expectedHash, allowUnverified) ==
    expectedHash = "" /\ ~allowUnverified

ConfiguredHashes == {"", "  ", " AA ", "bb"}

ChecksumFiles ==
    { <<>>,
      << Line("bb", OtherName), Line("AA", AssetName) >>,
      << Line("bb", OtherName) >>,
      << Line("zz", AssetName) >>,
      << Line("bb", "") >> }

ActualHashes == {"aa", "bb"}

IdleArchive ==
    [pc |-> "idle", silkSha256 |-> "", allowUnverified |-> FALSE, sum |-> <<>>,
     assetSum |-> <<>>, actual |-> "", expected |-> "", extracted |-> FALSE,
     installed |-> FALSE]

archiveFails == archive' = [archive EXCEPT !.pc = "failed"]

\* after resolveChecksum has answered: the missing-checksum check, then on
\* to sha256File or straight to the extraction
afterResolveChecksum(expectedHash) ==
    IF missingChecksumIsFatal(expectedHash, archive.allowUnverified)
    THEN archive' = [archive EXCEPT !.pc = "failed", !.expected = expectedHash]
    ELSE archive' = [archive EXCEPT !.expected = expectedHash,
                        !.pc = IF expectedHash # "" THEN "sha256File" ELSE "extract"]

\* `await downloadFile(...)` is over; resolveChecksum starts and, with
\* silkSha256 configured, answers at once
ArchiveDownloaded(ok) ==
    /\ archive.pc = "download"
    /\ IF ~ok THEN archiveFails
       ELSE IF trim(archive.silkSha256) # ""
       THEN afterResolveChecksum(hashToLowerCase(trim(archive.silkSha256)))
       ELSE archive' = [archive EXCEPT !.pc = "fetchSum"]

\* `await fetchText(sumUrl).catch(() => "")` is over
SumFetched(ok) ==
    /\ archive.pc = "fetchSum"
    /\ LET sum == IF ok THEN archive.sum ELSE <<>>
           parsed == parseChecksum(sum, AssetName)
       IN IF sum # <<>> /\ parsed # ""
          THEN afterResolveChecksum(parsed)
          ELSE archive' = [archive EXCEPT !.pc = "fetchAssetSum"]

\* `await fetchText(assetSumUrl).catch(() => "")` is over
AssetSumFetched(ok) ==
    /\ archive.pc = "fetchAssetSum"
    /\ afterResolveChecksum(checksumFromAssetSum(IF ok THEN archive.assetSum ELSE <<>>,
                                                 AssetName))

\* `await sha256File(archivePath)` is over
ArchiveHashed(ok) ==
    /\ archive.pc = "sha256File"
    /\ IF ok /\ hashEquals(archive.actual, archive.expected)
       THEN archive' = [archive EXCEPT !.pc = "extract"]
       ELSE archiveFails

\* extractArchive and findBinary are over
ArchiveExtracted(ok) ==
    /\ archive.pc = "extract"
    /\ archive' = [archive EXCEPT !.extracted = TRUE,
                                  !.pc = IF ok THEN "copy" ELSE "failed"]

\* mkdir and copyFile are over
ArchiveCopied(ok) ==
    /\ archive.pc = "copy"
    /\ archive' = [archive EXCEPT !.installed = ok,
                                  !.pc = IF ok THEN "installed" ELSE "failed"]

IdleInstallVars ==
    /\ callers = [c \in Callers |-> [pc |-> "idle", version |-> "", key |-> <<"", "">>,
                                     isLatest |-> FALSE, inst |-> 0, result |-> "none"]]
    /\ installCache = [k \in CacheKeys |-> 0]
    /\ resolvedPathCache = [k \in CacheKeys |-> "absent"]
    /\ installs = <<>>
    /\ disk = {}
    /\ assetOk = TRUE
    /\ overlap = {}
    /\ archive = IdleArchive


\* ------------------------------------------------------- GeweDownloadQueue

MaxJobs == 3

\* cleanup(): drop the entries older than the TTL
cleanup(s, t) ==
    [k \in Keys |-> IF s[k] # NONE /\ t - s[k] > QUEUE_DEDUPE_TTL_MS
                    THEN NONE ELSE s[k]]

seenHasNever(s, k) == FALSE

\* `if (this.seen.has(job.key)) return false;`
seenHas(s, k) == s[k] # NONE

\* `if (this.running) return;` -- whether run() goes on to work
runEntersNoGuard(r) == TRUE
runEnters(r) == ~r

runLoopHeadLifo(q, ws) ==
    IF Len(q) > 0
    THEN <<SubSeq(q, 1, Len(q) - 1), TRUE,
           ws \cup {[job |-> q[Len(q)], pc |-> "sleep", step |-> "run"]}>>
    ELSE <<q, FALSE, ws>>

\* run() up to its first await: take the head job and sleep; with an empty
\* queue the loop ends and `finally` clears running.
\* Gives the new <<queue, running, workers>>.
runLoopHead(q, ws) ==
    IF Len(q) > 0
    THEN <<Tail(q), TRUE, ws \cup {[job |-> Head(q), pc |-> "sleep", step |-> "run"]}>>
    ELSE <<q, FALSE, ws>>

\* `void this.run()` as called by enqueue
runFromEnqueue(q, r, ws) ==
    IF runEnters(r) THEN runLoopHead(q, ws) ELSE <<q, r, ws>>

\* enqueue(job): the whole call, with the synchronous part of run()
enqueue(k, msg) ==
    LET s1 == cleanup(seen, now) IN
    IF seenHas(s1, k)
    THEN /\ seen' = s1
         /\ ret' = [key |-> k, ok |-> FALSE, at |-> now]
         /\ UNCHANGED <<queue, running, workers, nextId, accepted>>
    ELSE LET job == [id |-> nextId, key |-> k, at |-> now, msg |-> msg]
             r == runFromEnqueue(Append(queue, job), running, workers)
         IN /\ seen' = [s1 EXCEPT ![k] = now]
            /\ queue' = r[1]
            /\ running' = r[2]
            /\ workers' = r[3]
            /\ nextId' = nextId + 1
            /\ accepted' = accepted \cup {job}
            /\ ret' = [key |-> k, ok |-> TRUE, at |-> now]

\* A caller enqueues an abstract job under key k
Enqueue ==
    \E k \in Keys :
        /\ nextId <= MaxJobs
        /\ enqueue(k, 0)
        /\ UNCHANGED <<now, started, settled, rejected, unhandled, installVars,
                       inboundVars, webhookVars, pureVars>>

\* `await sleep(...)` is over: run() calls job.run()
WorkerWake ==
    \E w \in workers :
        /\ w.pc = "sleep"
        /\ workers' = (workers \ {w}) \cup {[w EXCEPT !.pc = "job"]}
        /\ started' = Append(started, w.job.id)
        /\ UNCHANGED <<now, queue, seen, running, nextId, ret, settled,
                       rejected, unhandled, accepted, installVars, inboundVars, webhookVars, pureVars>>

\* job.run() resolved: the while loop goes round
jobResolved(w) ==
    LET r == runLoopHead(queue, workers \ {w}) IN
    /\ queue' = r[1]
    /\ running' = r[2]
    /\ workers' = r[3]
    /\ settled' = settled \cup {w.job.id}
    /\ UNCHANGED <<rejected, unhandled>>

\* job.run() rejected: run() has try/finally and no catch, so the loop is
\* left, `finally` clears running and the promise of run() rejects; enqueue
\* called it with `void`, so nobody handles the rejection.
jobRejected(w) ==
    /\ running' = FALSE
    /\ workers' = workers \ {w}
    /\ settled' = settled \cup {w.job.id}
    /\ rejected' = rejected \cup {w.job.id}
    /\ unhandled' = unhandled + 1
    /\ UNCHANGED queue

JobResolves ==
    \E w \in workers :
        /\ w.pc = "job"
        /\ w.job.msg = 0
        /\ jobResolved(w)
        /\ UNCHANGED <<now, seen, nextId, ret, started, accepted, installVars,
                       inboundVars, webhookVars, pureVars>>

JobRejects ==
    \E w \in workers :
        /\ w.pc = "job"
        /\ w.job.msg = 0
        /\ jobRejected(w)
        /\ UNCHANGED <<now, seen, nextId, ret, started, accepted, installVars,
                       inboundVars, webhookVars, pureVars>>

QueueTick == Tick /\ UNCHANGED <<queueVars, installVars, inboundVars, webhookVars, pureVars>>

\* ------------------------------------------------------ allowlist policy

\* A configured allowlist entry or a sender id as written: surrounding
\* blanks, an optional channel prefix and the text itself.
Raw(text) == [pad |-> FALSE, prefix |-> "", text |-> text]
Prefixed(prefix, text) == [pad |-> TRUE, prefix |-> prefix, text |-> text]

\* String.prototype.toLowerCase over the texts the model uses
toLowerCase(text) ==
    CASE text = "Wxid_Alice" -> "wxid_alice"
      [] text = "Alice" -> "alice"
      [] text = "Audio/SILK" -> "audio/silk"
      [] text = "VOICE.SILK" -> "voice.silk"
      [] OTHER -> text

\* raw.trim().toLowerCase().replace(CHANNEL_PREFIX_REGEX, ""): the blanks
\* and the prefix go, the text is lowered
normalizeAllowEntry(raw) == toLowerCase(raw.text)

\* (values ?? []).map(normalizeAllowEntry).filter(Boolean)
normalizeGeweAllowlist(values) ==
    SelectSeq([i \in 1..Len(values) |-> normalizeAllowEntry(values[i])],
              LAMBDA e : e # "")

includesNever(list, e) == FALSE

\* Array.prototype.includes
includes(list, e) == \E i \in 1..Len(list) : list[i] = e

\* resolveGeweAllowlistMatch(...).allowed
resolveGeweAllowlistMatch(allowFrom, senderId, senderName) ==
    LET list == normalizeGeweAllowlist(allowFrom)
        id == normalizeAllowEntry(senderId)
        name == IF senderName.text # "" THEN normalizeAllowEntry(senderName) ELSE ""
    IN IF Len(list) = 0 THEN FALSE
       ELSE IF includes(list, "*") THEN TRUE
       ELSE IF includes(list, id) THEN TRUE
       ELSE name # "" /\ includes(list, name)

\* resolveNestedAllowlistDecision of openclaw/plugin-sdk
resolveNestedAllowlistDecision(outerConfigured, outerMatched, innerConfigured, innerMatched) ==
    IF ~outerConfigured THEN TRUE
    ELSE IF ~outerMatched THEN FALSE
    ELSE IF ~innerConfigured THEN TRUE
    ELSE innerMatched

NoGroup == [enabled |-> "absent", requireMention |-> "absent", allowFrom |-> <<>>]

\* resolveGeweGroupMatch: the entry of the group, else the "*" entry; with
\* entries configured a group without one is not allowed
resolveGeweGroupMatch(groups, groupId) ==
    LET wildcardEntry == IF "*" \in DOMAIN groups THEN groups["*"] ELSE NoGroup
        entry == IF groupId \in DOMAIN groups THEN groups[groupId] ELSE wildcardEntry
    IN [groupConfig |-> entry,
        wildcardConfig |-> wildcardEntry,
        allowed |-> resolveNestedAllowlistDecision(DOMAIN groups # {}, entry # NoGroup,
                                                   FALSE, FALSE)]

resolveGeweRequireMentionAlways(groupConfig, wildcardConfig) == TRUE

resolveGeweRequireMention(groupConfig, wildcardConfig) ==
    IF groupConfig.requireMention \in {"true", "false"}
    THEN groupConfig.requireMention = "true"
    ELSE IF wildcardConfig.requireMention \in {"true", "false"}
    THEN wildcardConfig.requireMention = "true"
    ELSE TRUE

resolveGeweGroupAllowByLists(groupPolicy, outerAllowFrom, innerAllowFrom, senderId, senderName) ==
    \/ resolveGeweAllowlistMatch(outerAllowFrom, senderId, senderName)
    \/ resolveGeweAllowlistMatch(innerAllowFrom, senderId, senderName)

resolveGeweGroupAllow(groupPolicy, outerAllowFrom, innerAllowFrom, senderId, senderName) ==
    LET outerAllow == normalizeGeweAllowlist(outerAllowFrom)
        innerAllow == normalizeGeweAllowlist(innerAllowFrom)
    IN IF groupPolicy = "disabled" THEN FALSE
       ELSE IF groupPolicy = "open" THEN TRUE
       ELSE IF Len(outerAllow) = 0 /\ Len(innerAllow) = 0 THEN FALSE
       ELSE resolveNestedAllowlistDecision(
                Len(outerAllow) > 0 \/ Len(innerAllow) > 0,
                IF Len(outerAllow) > 0
                THEN resolveGeweAllowlistMatch(outerAllowFrom, senderId, senderName)
                ELSE TRUE,
                Len(innerAllow) > 0,
                resolveGeweAllowlistMatch(innerAllowFrom, senderId, senderName))

resolveControlCommandGateNoBlock(useAccessGroups, configured, allowed, allowTextCommands, hasCommand) ==
    [commandAuthorized |-> IF useAccessGroups THEN configured /\ allowed ELSE TRUE,
     shouldBlock |-> FALSE]

\* resolveControlCommandGate of openclaw/plugin-sdk with one authorizer
resolveControlCommandGate(useAccessGroups, configured, allowed, allowTextCommands, hasCommand) ==
    LET commandAuthorized == IF useAccessGroups THEN configured /\ allowed ELSE TRUE
    IN [commandAuthorized |-> commandAuthorized,
        shouldBlock |-> allowTextCommands /\ hasCommand /\ ~commandAuthorized]

\* resolveGeweMentionGate(...).shouldSkip: resolveMentionGatingWithBypass
\* with canDetectMention true
resolveGeweMentionGate(isGroup, requireMention, wasMentioned, allowTextCommands, hasCommand, commandAuthorized) ==
    LET shouldBypassMention == isGroup /\ requireMention /\ ~wasMentioned
                               /\ allowTextCommands /\ commandAuthorized
                               /\ hasCommand
    IN requireMention /\ ~(wasMentioned \/ shouldBypassMention)

\* ------------------------------------------------- webhook dedupe cache

MaxRequests == 2
Requests == 1..MaxRequests

\* src/src/monitor.ts:22
DEDUPE_TTL_MS == 12 * 60 * 60 * 1000

\* cleanupSeen(): drop the entries older than the TTL
cleanupSeen(s, t) ==
    [k \in Keys |-> IF s[k] # NONE /\ t - s[k] > DEDUPE_TTL_MS THEN NONE ELSE s[k]]

seenMessagesSetSkip(s, k, t) == s

\* `SEEN_MESSAGES.set(key, Date.now());`
seenMessagesSet(s, k, t) == [s EXCEPT ![k] = t]

isDuplicateRefreshes(s, k, t) ==
    LET s1 == cleanupSeen(s, t) IN
    [dup |-> s1[k] # NONE, seen |-> seenMessagesSet(s1, k, t)]

\* isDuplicate(key): the answer and the map it leaves
isDuplicate(s, k, t) ==
    LET s1 == cleanupSeen(s, t) IN
    IF s1[k] # NONE
    THEN [dup |-> TRUE, seen |-> s1]
    ELSE [dup |-> FALSE, seen |-> seenMessagesSet(s1, k, t)]

\* ------------------------------------------------------- inbound messages

BotWxid == "wxid_bot"
Chatrooms == {"room1@chatroom", "room2@chatroom", "room3@chatroom"}
Senders == {"wxid_alice", "wxid_bob"}

\* payloadToInboundMessage: `fromId.endsWith("@chatroom")`
isGroupChat(m) == m.fromId \in Chatrooms

\* onMessage: `message.fromId === message.botWxid || message.senderId === message.botWxid`
isSelf(m) == m.fromId = BotWxid \/ m.senderId = BotWxid

\* `[1, 3, 34, 43, 49].includes(msgType)`
supportedMsgType(msgType) == msgType \in {1, 3, 34, 43, 49}

resolveMediaPlaceholder(msgType) ==
    CASE msgType = 3 -> "<media:image>"
      [] msgType = 34 -> "<media:audio>"
      [] msgType = 43 -> "<media:video>"
      [] msgType = 49 -> "<media:document>"
      [] OTHER -> ""

\* `(isPlainText ? text.trim() : "") || resolveMediaPlaceholder(msgType)`
rawBodyCandidate(m) ==
    IF m.msgType = 1 /\ m.text # "" THEN m.text ELSE resolveMediaPlaceholder(m.msgType)

\* core.channel.text.hasControlCommand over the bodies the model uses
hasControlCommand(body) == body = "/status"

\* core.channel.mentions.matchesMentionPatterns over the bodies the model uses
matchesMentionPatterns(body) == body = "@bot hi"

\* extractAppMsgType(xml): the number in <appmsg>..<type>N</type>, NONE when
\* the pattern does not match
extractAppMsgType(xml) ==
    CASE xml = "<appmsg><type>5</type></appmsg>" -> 5
      [] xml = "<appmsg><type>6</type></appmsg>" -> 6
      [] xml = "<appmsg><type>74</type></appmsg>" -> 74
      [] OTHER -> NONE

Dm(senderId, msgType, text) ==
    [fromId |-> senderId, senderId |-> senderId, msgType |-> msgType, text |-> text]
Group(groupId, senderId, msgType, text) ==
    [fromId |-> groupId, senderId |-> senderId, msgType |-> msgType, text |-> text]

\* Messages as payloadToInboundMessage builds them (text is trimmed, xml is
\* the same string as text), without the key
DedupeShapes ==
    { Dm("wxid_alice", 1, "hello"),
      Dm("wxid_alice", 10000, "hello"),
      Dm(BotWxid, 1, "hello") }

InboundShapes ==
    DedupeShapes \cup
    { Dm("wxid_bob", 1, "hello"),
      Dm("wxid_alice", 1, ""),
      Dm("wxid_alice", 3, "<img/>"),
      Dm("wxid_alice", 34, "<voicemsg/>"),
      Dm("wxid_alice", 3, ""),
      Dm("wxid_alice", 49, "<appmsg><type>5</type></appmsg>"),
      Dm("wxid_alice", 49, "<appmsg><type>74</type></appmsg>"),
      Group("room3@chatroom", "wxid_alice", 1, "@bot hi"),
      Group("room2@chatroom", "wxid_alice", 1, "@bot hi"),
      Group("room1@chatroom", "wxid_bob", 1, "/status"),
      Group("room1@chatroom", "wxid_alice", 1, "hello"),
      Group("room1@chatroom", "wxid_alice", 1, "@bot hi") }

\* `${message.appId}:${message.newMessageId}`
dedupeKey(m) == m.key

WithKey(shape, k) ==
    [key |-> k, fromId |-> shape.fromId, senderId |-> shape.senderId,
     msgType |-> shape.msgType, text |-> shape.text]

NoMessage == WithKey(Dm("", 0, ""), "")

\* ---------------------------------------------------------- configuration

GroupEntry(enabled, requireMention, allowFrom) ==
    [enabled |-> enabled, requireMention |-> requireMention, allowFrom |-> allowFrom]

\* dmPolicy and groupPolicy left unset (pairing, allowlist), one allowed
\* sender written with blanks, a prefix and capitals, and two groups
CfgDefault ==
    [dmPolicy |-> "pairing", groupPolicy |-> "allowlist",
     allowFrom |-> <<Prefixed("wx:", "Wxid_Alice")>>, groupAllowFrom |-> <<>>,
     groups |-> [g \in {"room1@chatroom", "room2@chatroom"} |->
                    IF g = "room2@chatroom" THEN GroupEntry("false", "unset", <<>>)
                    ELSE GroupEntry("unset", "unset", <<>>)],
     allowTextCommands |-> TRUE, useAccessGroups |-> TRUE, mentionPatterns |-> TRUE]

\* everything open, no allowlists and no groups configured
CfgOpen ==
    [dmPolicy |-> "open", groupPolicy |-> "open",
     allowFrom |-> <<>>, groupAllowFrom |-> <<>>,
     groups |-> [g \in {} |-> NoGroup],
     allowTextCommands |-> TRUE, useAccessGroups |-> TRUE, mentionPatterns |-> TRUE]

Configs == {CfgDefault, CfgOpen}

\* what readAllowFromStore may give: nothing (also when it rejects, by the
\* `.catch(() => [])`) or a sender approved by pairing
StoreReads == {<<>>, <<Raw("wxid_bob")>>}

\* ------------------------------------------------------ handleGeweInbound

\* The gates between `await readAllowFromStore` and the routing, in the
\* order of the code: the name of the gate that drops the message, or
\* "pass".
gate(c, m, storeAllowFrom) ==
    LET isGroup == isGroupChat(m)
        senderId == Raw(m.senderId)
        senderName == Raw("")
        dmPolicy == c.dmPolicy
        groupPolicy == c.groupPolicy
        configAllowFrom == normalizeGeweAllowlist(c.allowFrom)
        configGroupAllowFrom == normalizeGeweAllowlist(c.groupAllowFrom)
        storeAllowList == normalizeGeweAllowlist(storeAllowFrom)
        groupMatch == IF isGroup THEN resolveGeweGroupMatch(c.groups, m.fromId)
                      ELSE [groupConfig |-> NoGroup, wildcardConfig |-> NoGroup,
                            allowed |-> TRUE]
        roomAllowFrom == groupMatch.groupConfig.allowFrom
        baseGroupAllowFrom == IF Len(configGroupAllowFrom) > 0 THEN configGroupAllowFrom
                              ELSE configAllowFrom
        toRaw(list) == [i \in 1..Len(list) |-> Raw(list[i])]
        effectiveAllowFrom == toRaw(configAllowFrom \o storeAllowList)
        effectiveGroupAllowFrom == toRaw(baseGroupAllowFrom \o storeAllowList)
        commandAllowFrom == IF isGroup THEN effectiveGroupAllowFrom ELSE effectiveAllowFrom
        senderAllowedForCommands ==
            resolveGeweAllowlistMatch(commandAllowFrom, senderId, senderName)
        body == rawBodyCandidate(m)
        hasCommand == hasControlCommand(body)
        commandGate == resolveControlCommandGate(c.useAccessGroups,
                           Len(commandAllowFrom) > 0, senderAllowedForCommands,
                           c.allowTextCommands, hasCommand)
        wasMentioned == IF c.mentionPatterns THEN matchesMentionPatterns(body) ELSE FALSE
        shouldRequireMention ==
            IF isGroup
            THEN resolveGeweRequireMention(groupMatch.groupConfig, groupMatch.wildcardConfig)
            ELSE FALSE
    IN IF isGroup /\ ~groupMatch.allowed THEN "groupAllowlist"
       ELSE IF groupMatch.groupConfig.enabled = "false" THEN "groupDisabled"
       ELSE IF body = "" THEN "empty"
       ELSE IF isGroup /\ ~resolveGeweGroupAllow(groupPolicy, effectiveGroupAllowFrom,
                                                 roomAllowFrom, senderId, senderName)
       THEN "groupSender"
       ELSE IF ~isGroup /\ dmPolicy = "disabled" THEN "dmPolicy"
       ELSE IF ~isGroup /\ dmPolicy # "open"
               /\ ~resolveGeweAllowlistMatch(effectiveAllowFrom, senderId, senderName)
       THEN "dmPolicy"
       ELSE IF isGroup /\ commandGate.shouldBlock THEN "command"
       ELSE IF isGroup /\ resolveGeweMentionGate(isGroup, shouldRequireMention,
                              wasMentioned, c.allowTextCommands, hasCommand,
                              commandGate.commandAuthorized)
       THEN "mention"
       ELSE "pass"

handlerReturnsNever(g) == FALSE

\* the `return` that follows each drop
handlerReturns(g) == g # "pass"

routeNoDownload(m) == "dispatch"

\* The routing once the gates are passed: "dispatch" (the link of an app
\* message of type 5, or a message with nothing to download), "skip" (a file
\* notice or another app message type) or "enqueue".
route(m) ==
    LET xml == m.text
        needsDownload == m.msgType \in {3, 34, 43, 49}
        appType == extractAppMsgType(xml)
    IN IF m.msgType = 49 /\ xml # "" /\ appType = 5 THEN "dispatch"
       ELSE IF m.msgType = 49 /\ xml # "" /\ appType = 74 THEN "skip"
       ELSE IF m.msgType = 49 /\ xml # "" /\ appType # 6 THEN "skip"
       ELSE IF ~needsDownload \/ xml = "" THEN "dispatch"
       ELSE "enqueue"

\* decode: how decodeSilkVoice ended for the message ("" when not called);
\* media: what the last dispatchGeweInbound call carried
IdleRequest ==
    [pc |-> "idle", msg |-> NoMessage, at |-> NONE, handled |-> FALSE,
     dropped |-> "", calls |-> 0, enq |-> FALSE, decode |-> "", media |-> "none"]

\* One webhook request from the end of readBody on: the payload is parsed,
\* 200 is written, and onMessage runs up to the first await of
\* handleGeweInbound (the self check, isDuplicate, the msgType check).
Receive(r, m) ==
    /\ reqs[r].pc = "idle"
    /\ r > 1 => reqs[r - 1].pc # "idle"
    /\ r = 1 => m.key = "app:1"
    /\ LET d == isDuplicate(SEEN_MESSAGES, dedupeKey(m), now)
           base == [reqs[r] EXCEPT !.msg = m, !.at = now]
       IN IF isSelf(m)
          THEN /\ reqs' = [reqs EXCEPT ![r] = [base EXCEPT !.pc = "done", !.dropped = "self"]]
               /\ UNCHANGED SEEN_MESSAGES
          ELSE /\ SEEN_MESSAGES' = d.seen
               /\ reqs' = [reqs EXCEPT ![r] =
                    IF d.dup
                    THEN [base EXCEPT !.pc = "done", !.dropped = "duplicate"]
                    ELSE IF ~supportedMsgType(m.msgType)
                    THEN [base EXCEPT !.pc = "done", !.handled = TRUE, !.dropped = "msgType"]
                    ELSE [base EXCEPT !.pc = "store", !.handled = TRUE]]
    /\ UNCHANGED <<now, queueVars, installVars, webhookVars, pureVars, cfg, pairingPending, pairingReplies,
                   webhookErrors, jobErrors>>

\* `await readAllowFromStore(...)` is over: the gates, then the routing up to
\* the next await or to the return of the handler
AfterStore(r, storeAllowFrom) ==
    /\ reqs[r].pc = "store"
    /\ LET m == reqs[r].msg
           g == gate(cfg, m, storeAllowFrom)
           dropped == IF g = "pass" THEN "" ELSE g
           to == route(m)
       IN IF g = "dmPolicy" /\ cfg.dmPolicy = "pairing"
          THEN /\ reqs' = [reqs EXCEPT ![r].pc = "pairing", ![r].dropped = dropped]
               /\ UNCHANGED queueVars
          ELSE IF handlerReturns(g) \/ to = "skip"
          THEN /\ reqs' = [reqs EXCEPT ![r].pc = "done", ![r].dropped = dropped]
               /\ UNCHANGED queueVars
          ELSE IF to = "dispatch"
          THEN /\ reqs' = [reqs EXCEPT ![r].pc = "dispatch", ![r].dropped = dropped,
                                       ![r].calls = @ + 1]
               /\ UNCHANGED queueVars
          ELSE /\ reqs' = [reqs EXCEPT ![r].pc = "done", ![r].dropped = dropped,
                                       ![r].enq = TRUE]
               /\ enqueue(m.key, r)
               /\ UNCHANGED <<started, settled, rejected, unhandled>>
    /\ UNCHANGED <<now, installVars, webhookVars, pureVars, SEEN_MESSAGES, cfg, pairingPending, pairingReplies,
                   webhookErrors, jobErrors>>

upsertCreatesAlways(pending, sender) == TRUE

\* `created` of upsertPairingRequest: true for a sender without a pending
\* request
upsertCreates(pending, sender) == sender \notin pending

\* `await upsertPairingRequest(...)` is over: a new request gets a reply, a
\* pending one does not; a rejection leaves handleGeweInbound and onMessage
\* and is logged by the catch of the webhook handler
PairingUpserted(r, ok) ==
    /\ reqs[r].pc = "pairing"
    /\ LET sender == reqs[r].msg.senderId
           created == upsertCreates(pairingPending, sender)
       IN IF ~ok
          THEN /\ reqs' = [reqs EXCEPT ![r].pc = "done"]
               /\ webhookErrors' = webhookErrors + 1
               /\ UNCHANGED <<pairingPending, pairingReplies>>
          ELSE IF created
          THEN /\ reqs' = [reqs EXCEPT ![r].pc = "pairReply"]
               /\ pairingPending' = pairingPending \cup {sender}
               /\ pairingReplies' = [pairingReplies EXCEPT ![sender] = @ + 1]
               /\ UNCHANGED webhookErrors
          ELSE /\ reqs' = [reqs EXCEPT ![r].pc = "done"]
               /\ UNCHANGED <<pairingPending, pairingReplies, webhookErrors>>
    /\ UNCHANGED <<now, queueVars, installVars, webhookVars, pureVars, SEEN_MESSAGES, cfg, jobErrors>>

\* `await deliverGewePayload(...)` of the pairing reply is over; a failure is
\* caught and logged on the spot
PairReplySettles(r) ==
    /\ reqs[r].pc = "pairReply"
    /\ reqs' = [reqs EXCEPT ![r].pc = "done"]
    /\ UNCHANGED <<now, queueVars, installVars, webhookVars, pureVars, SEEN_MESSAGES, cfg, pairingPending,
                   pairingReplies, webhookErrors, jobErrors>>

\* `await dispatchGeweInbound(...)` called by the handler itself is over; a
\* rejection leaves handleGeweInbound and onMessage and is logged by the
\* catch of the webhook handler
DispatchSettles(r, ok) ==
    /\ reqs[r].pc = "dispatch"
    /\ reqs' = [reqs EXCEPT ![r].pc = "done"]
    /\ webhookErrors' = IF ok THEN webhookErrors ELSE webhookErrors + 1
    /\ UNCHANGED <<now, queueVars, installVars, webhookVars, pureVars, SEEN_MESSAGES, cfg, pairingPending,
                   pairingReplies, jobErrors>>

\* ----------------------------------------------------- the download job

jobOf(w) == reqs[w.job.msg].msg

InboundJobAt(w, step) == w.pc = "job" /\ w.job.msg # 0 /\ w.step = step

setStep(w, step) == workers' = (workers \ {w}) \cup {[w EXCEPT !.step = step]}

\* the job calls dispatchGeweInbound inside its try block
jobDispatches(w, media) ==
    /\ reqs' = [reqs EXCEPT ![w.job.msg].calls = @ + 1, ![w.job.msg].media = media]
    /\ setStep(w, "dispatchTry")
    /\ UNCHANGED <<queue, running, settled, rejected, unhandled, jobErrors>>

\* the catch block of the job: log, then call dispatchGeweInbound without
\* the media
jobCatch(w) ==
    /\ jobErrors' = jobErrors + 1
    /\ reqs' = [reqs EXCEPT ![w.job.msg].calls = @ + 1, ![w.job.msg].media = "none"]
    /\ setStep(w, "dispatchCatch")
    /\ UNCHANGED <<queue, running, settled, rejected, unhandled>>

jobGoes(w, step) ==
    /\ setStep(w, step)
    /\ UNCHANGED <<queue, running, settled, rejected, unhandled, reqs, jobErrors>>

JobFrame == UNCHANGED <<now, seen, nextId, ret, started, accepted, installVars, webhookVars, pureVars,
                        SEEN_MESSAGES, cfg, pairingPending, pairingReplies,
                        webhookErrors>>

\* downloadGeweImage (types 2, 1, 3 in turn) / Voice / Video / File is over:
\* a URL, no URL, or the (last) call threw
JobDownload(w, outcome) ==
    /\ InboundJobAt(w, "run")
    /\ CASE outcome = "url" -> jobGoes(w, "fetch")
         [] outcome = "null" -> jobDispatches(w, "none")
         [] outcome = "throw" -> jobCatch(w)
    /\ JobFrame

\* fetchRemoteMedia is over; a voice buffer that looks like SILK goes to
\* decodeSilkVoice, anything else to saveMediaBuffer
JobFetch(w, outcome) ==
    /\ InboundJobAt(w, "fetch")
    /\ outcome = "silk" => jobOf(w).msgType = 34
    /\ CASE outcome = "silk" -> jobGoes(w, "decode")
         [] outcome = "other" -> jobGoes(w, "save")
         [] outcome = "throw" -> jobCatch(w)
    /\ JobFrame

\* decodeSilkVoice is over: the decoded wav, or null (the buffer as fetched
\* is kept), or it threw (ensureRustSilkBinary and mkdtemp are outside its
\* try)
JobDecode(w, outcome) ==
    /\ InboundJobAt(w, "decode")
    /\ IF outcome = "throw"
       THEN /\ jobErrors' = jobErrors + 1
            /\ reqs' = [reqs EXCEPT ![w.job.msg].calls = @ + 1,
                                    ![w.job.msg].media = "none",
                                    ![w.job.msg].decode = outcome]
            /\ setStep(w, "dispatchCatch")
       ELSE /\ reqs' = [reqs EXCEPT ![w.job.msg].decode = outcome]
            /\ setStep(w, "save")
            /\ UNCHANGED jobErrors
    /\ UNCHANGED <<queue, running, settled, rejected, unhandled>>
    /\ JobFrame

\* saveMediaBuffer is over
JobSave(w, ok) ==
    /\ InboundJobAt(w, "save")
    /\ IF ok
       THEN jobDispatches(w, IF reqs[w.job.msg].decode = "decoded" THEN "wav" ELSE "fetched")
       ELSE jobCatch(w)
    /\ JobFrame

\* dispatchGeweInbound called inside the try is over
JobDispatchTry(w, ok) ==
    /\ InboundJobAt(w, "dispatchTry")
    /\ IF ok
       THEN jobResolved(w) /\ UNCHANGED <<reqs, jobErrors>>
       ELSE jobCatch(w)
    /\ JobFrame

\* dispatchGeweInbound called by the catch block is over; nothing catches
\* its rejection, so job.run() rejects
JobDispatchCatch(w, ok) ==
    /\ InboundJobAt(w, "dispatchCatch")
    /\ IF ok THEN jobResolved(w) ELSE jobRejected(w)
    /\ UNCHANGED <<reqs, jobErrors>>
    /\ JobFrame

IdleInboundVars ==
    /\ SEEN_MESSAGES = [k \in Keys |-> NONE]
    /\ reqs = [r \in Requests |-> IdleRequest]
    /\ cfg = CfgOpen
    /\ pairingPending = {}
    /\ pairingReplies = [p \in Senders |-> 0]
    /\ webhookErrors = 0
    /\ jobErrors = 0

\* ------------------------------------------------ webhook server (HTTP)

HEALTH_PATH == "/healthz"
WebhookPath == "/webhook"

\* a header as Node hands it over: absent, one string, or an array
Absent == [isArray |-> FALSE, values |-> <<>>]
Str(v) == [isArray |-> FALSE, values |-> <<v>>]
Arr(vs) == [isArray |-> TRUE, values |-> vs]

HeaderValues == {Absent, Str(" s3cret "), Str("bad"), Arr(<<"  ", "s3cret">>)}

\* resolveWebhookToken: x-gewe-callback-token, x-webhook-token, x-gewe-token
\* in turn; an absent or empty value is passed over, of an array only the
\* first element counts; "" for undefined
RECURSIVE resolveWebhookToken(_)
resolveWebhookToken(candidates) ==
    IF candidates = <<>> THEN ""
    ELSE LET value == Head(candidates)
             first == IF value.values = <<>> THEN "" ELSE trim(value.values[1])
         IN IF first # "" THEN first ELSE resolveWebhookToken(Tail(candidates))

\* validateWebhookSecret(...).ok
validateWebhookSecret(req, configured) ==
    IF configured = "" THEN TRUE
    ELSE IF resolveWebhookToken(req.headers) = configured THEN TRUE
    ELSE req.token = configured

\* req.url as path and query: the url is `path` alone when query is "none",
\* else path?x=1 ("other") or path?token=<token>
Url(path, query, token) == [path |-> path, query |-> query, token |-> token]

Urls ==
    { Url(HEALTH_PATH, "none", ""), Url(HEALTH_PATH, "other", ""),
      Url(WebhookPath, "none", ""), Url(WebhookPath, "token", "s3cret"),
      Url(WebhookPath, "token", "bad"), Url("/other", "none", "") }

Methods == {"POST", "GET"}

\* `req.url === HEALTH_PATH`
isHealthCheck(req) == req.url.path = HEALTH_PATH /\ req.url.query = "none"

\* `req.url?.split("?")[0] !== path || req.method !== "POST"` negated
isWebhookPost(req) == req.url.path = WebhookPath /\ req.method = "POST"

\* A field of the payload as JSON.parse leaves it: "absent", "blank" (a
\* string of blanks), "text" (a string with content) or "number"
FieldKinds == {"absent", "blank", "text", "number"}

Body(json, appid, wxid, data, from, to, msgType, content) ==
    [json |-> json, Appid |-> appid, Wxid |-> wxid, Data |-> data,
     FromUserName |-> from, ToUserName |-> to, MsgType |-> msgType,
     Content |-> content]

ValidBody == Body(TRUE, "text", "text", TRUE, "text", "text", "number", "text")

Bodies ==
    { ValidBody,
      [ValidBody EXCEPT !.json = FALSE],
      [ValidBody EXCEPT !.Appid = "absent"],
      [ValidBody EXCEPT !.Wxid = "blank"],
      [ValidBody EXCEPT !.Data = FALSE],
      [ValidBody EXCEPT !.FromUserName = "absent"],
      [ValidBody EXCEPT !.MsgType = "text"],
      [ValidBody EXCEPT !.Content = "absent"],
      [ValidBody EXCEPT !.Appid = "number"],
      [ValidBody EXCEPT !.FromUserName = "number"],
      [ValidBody EXCEPT !.Content = "number"] }

\* `x?.trim() ?? ""` on a field: the string left, or "throw" for the
\* TypeError of calling trim on a number
trimField(kind) ==
    CASE kind = "text" -> "text"
      [] kind = "number" -> "throw"
      [] OTHER -> ""

\* payloadToInboundMessage: "message", "null" or "throw"
payloadToInboundMessage(payload) ==
    LET appId == trimField(payload.Appid)
        botWxid == trimField(payload.Wxid)
        fromId == trimField(payload.FromUserName)
        toId == trimField(payload.ToUserName)
    IN IF appId = "throw" THEN "throw"
       ELSE IF botWxid = "throw" THEN "throw"
       ELSE IF ~payload.Data \/ appId = "" \/ botWxid = "" THEN "null"
       ELSE IF fromId = "throw" \/ toId = "throw" THEN "throw"
       ELSE IF fromId = "" \/ toId = "" \/ payload.MsgType # "number" THEN "null"
       \* splitGroupContent / `groupParsed.body?.trim()` on a content that is
       \* not a string
       ELSE IF payload.Content = "number" THEN "throw"
       ELSE "message"

written200Never(responses) == responses

\* `res.writeHead(200); res.end();`
written200(responses) == Append(responses, 200)

\* `if (!res.headersSent)` of the outer catch
headersSent(responses) == Len(responses) > 0

IdleHttp ==
    [pc |-> "idle", req |-> [url |-> Url("", "none", ""), method |-> "",
                             headers |-> <<Absent, Absent, Absent>>, token |-> ""],
     body |-> ValidBody, streamError |-> FALSE, responses |-> <<>>,
     onMessage |-> "no", errors |-> 0, respondedFirst |-> FALSE]

IdleWebhookVars ==
    /\ secret = ""
    /\ http = IdleHttp

\* A request arrives: the handler up to `await readBody(req)`, or to the
\* response for the health check, another path or method, or a bad token
HttpRequest(url, method, h1, h2, h3) ==
    /\ http.pc = "idle"
    /\ LET req == [url |-> url, method |-> method, headers |-> <<h1, h2, h3>>,
                   token |-> url.token]
           fresh == [IdleHttp EXCEPT !.req = req]
       IN http' =
            IF isHealthCheck(req) THEN [fresh EXCEPT !.pc = "done", !.responses = <<200>>]
            ELSE IF ~isWebhookPost(req) THEN [fresh EXCEPT !.pc = "done", !.responses = <<404>>]
            ELSE IF ~validateWebhookSecret(req, secret)
            THEN [fresh EXCEPT !.pc = "done", !.responses = <<401>>]
            ELSE [fresh EXCEPT !.pc = "readBody"]
    /\ UNCHANGED secret

\* the outer catch: onError, and 500 unless a response was already written
outerCatch(h) ==
    [h EXCEPT !.pc = "done", !.errors = @ + 1,
              !.responses = IF headersSent(@) THEN @ ELSE Append(@, 500)]

\* readBody is over: parse, answer 400 or 200, and with 200 written call
\* onMessage, which runs up to its first await
BodyRead(ok, body) ==
    /\ http.pc = "readBody"
    /\ LET h == [http EXCEPT !.body = body]
           message == payloadToInboundMessage(body)
       IN http' =
            IF ~ok THEN outerCatch([http EXCEPT !.streamError = TRUE])
            ELSE IF ~body.json THEN [h EXCEPT !.pc = "done", !.responses = Append(@, 400)]
            ELSE IF message = "throw" THEN outerCatch(h)
            ELSE IF message = "null" THEN [h EXCEPT !.pc = "done", !.responses = Append(@, 400)]
            ELSE [h EXCEPT !.pc = "onMessage", !.responses = written200(@),
                           !.respondedFirst = headersSent(written200(http.responses)),
                           !.onMessage = "running"]
    /\ UNCHANGED secret

\* `await onMessage(message)` is over (its steps are those of SpecInbound);
\* a rejection goes to the inner catch, which calls onError
OnMessageSettles(ok) ==
    /\ http.pc = "onMessage"
    /\ http' = [http EXCEPT !.pc = "done",
                            !.onMessage = IF ok THEN "resolved" ELSE "rejected",
                            !.errors = IF ok THEN @ ELSE @ + 1]
    /\ UNCHANGED secret

\* ------------------------------------------- policy functions on their own

\* allowlists as configured: entries with blanks, prefixes and capitals, the
\* wildcard, a display name, a blank entry
AllowLists ==
    { <<>>,
      << Raw("") >>,
      << Prefixed("wx:", "Wxid_Alice") >>,
      << Raw("wxid_bob") >>,
      << Raw("wxid_bob"), Raw("wxid_alice") >>,
      << Raw("*") >>,
      << Raw("wxid_bob"), Prefixed("gewe:", "*") >>,
      << Raw("Alice") >> }

PolicySenderIds == {"wxid_alice", "Wxid_Alice", "wxid_bob", "wxid_carol"}
PolicySenderNames == {"", "Alice"}
GroupPolicies == {"disabled", "open", "allowlist"}

IdlePolicy ==
    [pc |-> "idle", groupPolicy |-> "allowlist", outer |-> <<>>, inner |-> <<>>,
     senderId |-> "", senderName |-> "", outerMatch |-> FALSE,
     innerMatch |-> FALSE, groupAllow |-> FALSE]

\* no call under way
IdleProbe == [fn |-> "", pc |-> "idle", in |-> <<>>, out |-> <<>>]

IdlePureVars == policy = IdlePolicy /\ probe = IdleProbe

\* resolveGeweAllowlistMatch on each list and resolveGeweGroupAllow on both
EvaluatePolicy ==
    /\ policy.pc = "input"
    /\ policy' = [policy EXCEPT
          !.pc = "done",
          !.outerMatch = resolveGeweAllowlistMatch(policy.outer, Raw(policy.senderId),
                                                   Raw(policy.senderName)),
          !.innerMatch = resolveGeweAllowlistMatch(policy.inner, Raw(policy.senderId),
                                                   Raw(policy.senderName)),
          !.groupAllow = resolveGeweGroupAllow(policy.groupPolicy, policy.outer,
                              policy.inner, Raw(policy.senderId), Raw(policy.senderName))]

\* ------------------------------------------------------- silk detection

\* the bytes of "#!SILK_V3" (constants.ts:54)
SILK_HEADER == <<35, 33, 83, 73, 76, 75, 95, 86, 51>>

\* Buffer.toString("utf8") byte by byte: an ASCII byte is its character, a
\* byte that starts no valid sequence is U+FFFD
toStringUtf8(bytes) == [i \in 1..Len(bytes) |-> IF bytes[i] < 128 THEN bytes[i] ELSE 65533]

\* buffer.subarray(0, end)
subarray(buffer, end) == SubSeq(buffer, 1, IF end < Len(buffer) THEN end ELSE Len(buffer))

\* contentType.includes("silk") and fileName.endsWith(".silk") over the
\* lower-cased texts the model uses
includesSilk(text) == text \in {"audio/silk", "audio/x-silk;codecs=1"}
endsWithDotSilk(text) == text \in {"voice.silk", "a.b.silk"}

\* looksLikeSilkVoice; an absent contentType or fileName is ""
looksLikeSilkVoice(buffer, contentType, fileName) ==
    IF includesSilk(toLowerCase(contentType)) THEN TRUE
    ELSE IF endsWithDotSilk(toLowerCase(fileName)) THEN TRUE
    ELSE IF Len(buffer) < Len(SILK_HEADER) THEN FALSE
    ELSE toStringUtf8(subarray(buffer, Len(SILK_HEADER))) = SILK_HEADER

SilkBuffers ==
    { <<>>, <<35, 33>>, SubSeq(SILK_HEADER, 1, 8), SILK_HEADER,
      SILK_HEADER \o <<1, 200>>, <<2>> \o SILK_HEADER,
      [SILK_HEADER EXCEPT ![9] = 50], [SILK_HEADER EXCEPT ![1] = 200] }

SilkContentTypes == {"", "audio/silk", "Audio/SILK", "audio/amr", "application/octet-stream"}
SilkFileNames == {"", "voice.silk", "VOICE.SILK", "voice.amr", "silk.txt"}

PureFrame == UNCHANGED <<now, queueVars, installVars, inboundVars, webhookVars, policy>>

\* ------------------------------------------------- scoped temp directories
\* decodeSilkVoice, convertAudioToSilk, generateVideoThumbBuffer and
\* installRustSilk have one shape: mkdtemp, then try { awaited steps }
\* catch { log; return null } finally { await rm(tmpDir).catch(() => {}) }.
\* A step is an external command (zero exit, non-zero exit, killed at its
\* timeout, rejected) or a file operation (fine, empty or missing result,
\* rejected).
TmpDirFunctions ==
    {"decodeSilkVoice", "convertAudioToSilk", "generateVideoThumbBuffer", "installRustSilk"}

tmpDirSteps(fn) ==
    CASE fn = "decodeSilkVoice" -> <<"writeFile", "decoder", "ffmpeg", "statWav", "readFile">>
      [] fn = "convertAudioToSilk" -> <<"ffmpeg", "statPcm", "truncate", "encoder", "readFile">>
      [] fn = "generateVideoThumbBuffer" -> <<"ffmpeg", "readFile">>
      [] fn = "installRustSilk" -> <<"downloadFile", "resolveChecksum", "sha256File", "extractArchive", "findBinary", "copyFile", "cleanupOldVersions">>

isCommandStep(step) == step \in {"decoder", "ffmpeg", "encoder", "extractArchive"}

stepOutcomes(step) ==
    IF isCommandStep(step) THEN {"ok", "nonzero", "timeout", "reject"}
    ELSE IF step \in {"writeFile", "truncate", "downloadFile", "copyFile", "cleanupOldVersions"}
    THEN {"ok", "reject"}
    ELSE {"ok", "empty", "reject"}

\* What a step's outcome does to the try block: go on to the next step,
\* return null from inside the block, or throw into the catch clause.
stepEffect(fn, step, outcome) ==
    IF outcome = "ok" THEN "next"
    ELSE IF fn = "decodeSilkVoice"
    THEN (IF step = "decoder" THEN "return"
          ELSE IF outcome = "reject" /\ step # "statWav" THEN "throw"
          ELSE "return")
    ELSE IF fn = "generateVideoThumbBuffer"
    THEN (IF outcome = "reject" THEN "throw" ELSE "return")
    ELSE "throw"

\* Where control goes when the try block is left: a finally clause runs on
\* every way out of it.
afterTryNoFinally(effect) == IF effect = "return" THEN "returned" ELSE "finally"

afterTry(effect) == "finally"

TmpDirCall(fn, made) ==
    /\ probe = IdleProbe
    /\ probe' = [fn |-> fn,
                 pc |-> IF made THEN "try" ELSE "returned",
                 in |-> <<>>,
                 out |-> [dir |-> IF made THEN "exists" ELSE "never",
                          result |-> IF made THEN "" ELSE "rejected",
                          exit |-> IF made THEN "" ELSE "mkdtemp",
                          rm |-> ""]]
    /\ PureFrame

TmpDirStep(outcome) ==
    /\ probe.fn \in TmpDirFunctions
    /\ probe.pc = "try"
    /\ LET steps == tmpDirSteps(probe.fn)
           step == steps[Len(probe.in) + 1]
           effect == stepEffect(probe.fn, step, outcome)
           done == <<step, outcome>>
           last == Len(probe.in) + 1 = Len(steps)
       IN  /\ outcome \in stepOutcomes(step)
           /\ probe' =
                IF effect = "next" /\ ~last
                THEN [probe EXCEPT !.in = Append(@, done)]
                ELSE [probe EXCEPT
                        !.in = Append(@, done),
                        !.pc = afterTry(IF effect = "next" THEN "return" ELSE effect),
                        !.out.result = IF effect = "next" THEN "value" ELSE "null",
                        !.out.exit = IF effect = "next" THEN "success"
                                     ELSE IF effect = "throw" THEN "catch"
                                     ELSE "return"]
    /\ PureFrame

\* finally: rm(tmpDir, {recursive, force}); a rejection of rm is swallowed
TmpDirFinally(removed) ==
    /\ probe.fn \in TmpDirFunctions
    /\ probe.pc = "finally"
    /\ probe' = [probe EXCEPT !.pc = "returned",
                              !.out.dir = IF removed THEN "removed" ELSE "exists",
                              !.out.rm = IF removed THEN "removed" ELSE "rejected"]
    /\ PureFrame

\* --------------------------------------------------- link thumbnails
LINK_THUMB_MAX_BYTES == 51200
LINK_THUMB_MAX_SIDE == 320
LINK_THUMB_QUALITY_STEPS == <<80, 70, 60, 50, 40>>
ThumbSides == <<LINK_THUMB_MAX_SIDE, 240, 200, 160>>

\* params.contentType?.split(";")[0]?.trim(); "" for undefined
mimeOf(contentType) ==
    CASE contentType = "image/png" -> "image/png"
      [] contentType = "image/jpeg; charset=binary" -> "image/jpeg"
      [] contentType = " image/gif " -> "image/gif"
      [] contentType = "application/octet-stream" -> "application/octet-stream"
      [] contentType = "IMAGE/PNG" -> "IMAGE/PNG"
      [] OTHER -> ""

startsWithImage(text) == text \in {"image/png", "image/jpeg", "image/gif"}

ThumbContentTypes ==
    {"", "image/png", "image/jpeg; charset=binary", " image/gif ",
     "application/octet-stream", "IMAGE/PNG"}

ThumbInputSizes == {1000, 51200, 51201, 300000}

\* byte lengths resizeToJpeg of openclaw/plugin-sdk may give back: the code
\* relies on nothing but the length it reads from the result
ResizedSizes == {30000, 51200, 51201, 60000, 90000}

thumbPassesNever(byteLength, contentType) == FALSE

\* the test of the early return of normalizeThumbBuffer
thumbPasses(byteLength, contentType) ==
    /\ byteLength <= LINK_THUMB_MAX_BYTES
    /\ contentType # ""
    /\ startsWithImage(contentType)

\* the (maxSide, quality) of the n-th turn of the two nested loops
thumbStep(n) ==
    [maxSide |-> ThumbSides[((n - 1) \div Len(LINK_THUMB_QUALITY_STEPS)) + 1],
     quality |-> LINK_THUMB_QUALITY_STEPS[((n - 1) % Len(LINK_THUMB_QUALITY_STEPS)) + 1]]

ThumbTurns == Len(ThumbSides) * Len(LINK_THUMB_QUALITY_STEPS)

Min2(a, b) == IF a < b THEN a ELSE b

\* normalizeThumbBuffer up to its first await
NormalizeThumbEnter ==
    /\ probe.fn = "normalizeThumbBuffer"
    /\ probe.pc = "input"
    /\ LET contentType == mimeOf(probe.in.contentType)
       IN probe' =
            IF thumbPasses(probe.in.byteLength, contentType)
            THEN [probe EXCEPT !.pc = "done",
                               !.out.buffer = [byteLength |-> probe.in.byteLength,
                                               format |-> probe.in.format],
                               !.out.contentType = contentType]
            ELSE [probe EXCEPT !.pc = "resize"]
    /\ PureFrame

\* one turn of the loops: resizeToJpeg of `working` answers with a JPEG of
\* byteLength bytes
NormalizeThumbResize(byteLength) ==
    /\ probe.fn = "normalizeThumbBuffer"
    /\ probe.pc = "resize"
    /\ LET n == probe.out.turns + 1
           resized == [byteLength |-> byteLength, format |-> "jpeg"]
           attempted == [probe EXCEPT
                           !.out.turns = n,
                           !.out.maxSide = thumbStep(n).maxSide,
                           !.out.quality = thumbStep(n).quality,
                           !.out.smallest = IF n = 1 THEN byteLength ELSE Min2(@, byteLength),
                           !.out.buffer = resized,
                           !.out.contentType = "image/jpeg"]
       IN probe' =
            IF byteLength <= LINK_THUMB_MAX_BYTES \/ n = ThumbTurns
            THEN [attempted EXCEPT !.pc = "done"]
            ELSE attempted
    /\ PureFrame

\* ------------------------------------------------ outbound media delivery
\* deliverGewePayload for a payload with a media URL and no link (video
\* media, which has a branch of its own, is outside the inputs drawn).
\* The account option voiceAutoConvert is "unset", "true" or "false".
isFalsy(option) == option # "true"

\* A run of the try block of convertAudioToSilk: the steps taken in turn,
\* each with its outcome, up to and including the first that fails.
RECURSIVE OkPrefix(_, _)
OkPrefix(steps, n) ==
    IF n = 0 THEN <<>> ELSE Append(OkPrefix(steps, n - 1), <<steps[n], "ok">>)

ConvertRuns ==
    LET steps == tmpDirSteps("convertAudioToSilk")
    IN  {OkPrefix(steps, Len(steps))} \cup
        { Append(OkPrefix(steps, i - 1), <<steps[i], outcome>>) :
            i \in 1..Len(steps), outcome \in {"nonzero", "timeout", "empty", "reject"} }

RunIsPossible(run) ==
    \A i \in 1..Len(run) : run[i][2] \in stepOutcomes(run[i][1])

RunFailed(run) == \E i \in 1..Len(run) : run[i][2] # "ok"

convertAudioToSilkThrows(voiceAutoConvert, made, run) ==
    IF isFalsy(voiceAutoConvert) THEN "null"
    ELSE IF ~made THEN "reject"
    ELSE IF RunFailed(run) THEN "reject"
    ELSE "value"

\* convertAudioToSilk: "value", "null", or "reject" when mkdtemp, which is
\* awaited before the try block, rejects
convertAudioToSilk(voiceAutoConvert, made, run) ==
    IF isFalsy(voiceAutoConvert) THEN "null"
    ELSE IF ~made THEN "reject"
    ELSE IF \E i \in 1..Len(run) : stepEffect("convertAudioToSilk", run[i][1], run[i][2]) # "next"
    THEN "null"
    ELSE "value"

wantsVoice(in) == ~in.forceFile /\ (in.audioAsVoice \/ (~in.remote /\ in.ttsVoiceName))

\* the send reached when the voice branch is passed over or left
sendAfterVoice(in) ==
    IF ~in.forceFile /\ in.kind = "image"
    THEN [api |-> "sendImageGewe", url |-> "staged"]
    ELSE [api |-> "sendFileGewe", url |-> "staged"]

\* stageMedia settles; on success the branch on the staged media is taken
DeliverStage(ok) ==
    /\ probe.fn = "deliverGewePayload"
    /\ probe.pc = "stageMedia"
    /\ LET in == probe.in
           allowRemote == ~wantsVoice(in)
           localPath == ~(in.remote /\ allowRemote)
       IN probe' =
            IF ~ok THEN [probe EXCEPT !.pc = "done", !.out.failed = "stageMedia"]
            ELSE IF wantsVoice(in) /\ in.kind = "audio"
            THEN IF in.isSilk
                 THEN IF in.declaredDuration > 0
                      THEN [probe EXCEPT !.pc = "send",
                                         !.out.send = [api |-> "sendVoiceGewe", url |-> "staged"]]
                      ELSE [probe EXCEPT !.pc = "send", !.out.send = sendAfterVoice(in)]
                 ELSE IF localPath
                      THEN [probe EXCEPT !.pc = "convertAudioToSilk"]
                      ELSE [probe EXCEPT !.pc = "send", !.out.send = sendAfterVoice(in)]
            ELSE [probe EXCEPT !.pc = "send", !.out.send = sendAfterVoice(in)]
    /\ PureFrame

\* convertAudioToSilk settles
DeliverConvert(made, run) ==
    /\ probe.fn = "deliverGewePayload"
    /\ probe.pc = "convertAudioToSilk"
    /\ RunIsPossible(run)
    /\ LET converted == convertAudioToSilk(probe.in.voiceAutoConvert, made, run)
           ran == IF isFalsy(probe.in.voiceAutoConvert) \/ ~made THEN <<>> ELSE run
       IN probe' =
            IF converted = "reject"
            THEN [probe EXCEPT !.pc = "done", !.out.failed = "convertAudioToSilk",
                               !.out.converted = converted, !.out.run = ran]
            ELSE IF converted = "value"
            THEN [probe EXCEPT !.pc = "saveMediaBuffer",
                               !.out.converted = converted, !.out.run = ran]
            ELSE [probe EXCEPT !.pc = "send", !.out.send = sendAfterVoice(probe.in),
                               !.out.converted = converted, !.out.run = ran]
    /\ PureFrame

\* saveMediaBuffer of the converted voice settles
DeliverSave(ok) ==
    /\ probe.fn = "deliverGewePayload"
    /\ probe.pc = "saveMediaBuffer"
    /\ probe' = IF ok
                THEN [probe EXCEPT !.pc = "send",
                                   !.out.send = [api |-> "sendVoiceGewe", url |-> "saved"]]
                ELSE [probe EXCEPT !.pc = "done", !.out.failed = "saveMediaBuffer"]
    /\ PureFrame

\* the send settles
DeliverSend(ok) ==
    /\ probe.fn = "deliverGewePayload"
    /\ probe.pc = "send"
    /\ probe' = IF ok
                THEN [probe EXCEPT !.pc = "done", !.out.sent = probe.out.send]
                ELSE [probe EXCEPT !.pc = "done", !.out.failed = probe.out.send.api]
    /\ PureFrame

\* ------------------------------------------------------- media endpoint
\* createGeweMediaServer's request handler. Text is a sequence of
\* characters. basePath is "/m"; the outbound media directory holds the
\* file "a" and the directory "d" with the file "d/x"; beside the directory
\* lies the file "s".
BasePath == <<"/", "m">>

RECURSIVE indexOfChar(_, _, _)
indexOfChar(text, ch, from) ==
    IF from > Len(text) THEN 0
    ELSE IF text[from] = ch THEN from
    ELSE indexOfChar(text, ch, from + 1)

\* String.prototype.includes
includesText(text, part) ==
    \E i \in 1..(Len(text) - Len(part) + 1) : SubSeq(text, i, i + Len(part) - 1) = part

\* String.prototype.startsWith
startsWithText(text, part) ==
    Len(text) >= Len(part) /\ SubSeq(text, 1, Len(part)) = part

\* the segments between the separators of a path
RECURSIVE splitPath(_, _)
splitPath(text, seps) ==
    LET hits == {i \in 1..Len(text) : text[i] \in seps}
    IN IF hits = {} THEN <<text>>
       ELSE LET i == CHOOSE h \in hits : \A g \in hits : h <= g
            IN <<SubSeq(text, 1, i - 1)>> \o splitPath(SubSeq(text, i + 1, Len(text)), seps)

RECURSIVE joinPath(_)
joinPath(segments) ==
    IF segments = <<>> THEN <<>>
    ELSE <<"/">> \o Head(segments) \o joinPath(Tail(segments))

isSingleDot(segment) == segment \in {<<".">>, <<"%", "2", "e">>, <<"%", "2", "E">>}

isDoubleDot(segment) ==
    \E a, b \in {<<".">>, <<"%", "2", "e">>, <<"%", "2", "E">>} : segment = a \o b

\* the path state of the URL parser for http: "." and ".." segments, also
\* percent-encoded, are resolved; one that ends the path leaves an empty
\* last segment
RECURSIVE removeDotSegments(_, _)
removeDotSegments(segments, done) ==
    IF segments = <<>> THEN done
    ELSE LET segment == Head(segments)
             last == Len(segments) = 1
             popped == IF done = <<>> THEN <<>> ELSE SubSeq(done, 1, Len(done) - 1)
         IN IF isDoubleDot(segment)
            THEN removeDotSegments(Tail(segments), IF last THEN Append(popped, <<>>) ELSE popped)
            ELSE IF isSingleDot(segment)
            THEN removeDotSegments(Tail(segments), IF last THEN Append(done, <<>>) ELSE done)
            ELSE removeDotSegments(Tail(segments), Append(done, segment))

\* new URL(req.url, base).pathname for a req.url that starts with "/": the
\* query is cut off, "\" counts as "/", dot segments are resolved
pathnameOf(url) ==
    LET q == indexOfChar(url, "?", 1)
        path == IF q = 0 THEN url ELSE SubSeq(url, 1, q - 1)
        segments == splitPath(SubSeq(path, 2, Len(path)), {"/", "\\"})
    IN joinPath(removeDotSegments(segments, <<>>))

\* the character of a percent escape, "" for an escape that is malformed
unescapeHex(a, b) ==
    CASE <<a, b>> \in {<<"2", "E">>, <<"2", "e">>} -> "."
      [] <<a, b>> \in {<<"2", "F">>, <<"2", "f">>} -> "/"
      [] <<a, b>> \in {<<"5", "C">>, <<"5", "c">>} -> "\\"
      [] OTHER -> ""

\* decodeURIComponent: [ok, text]; ok is FALSE where it throws URIError
RECURSIVE decodeURIComponent(_)
decodeURIComponent(text) ==
    IF text = <<>> THEN [ok |-> TRUE, text |-> <<>>]
    ELSE IF Head(text) # "%"
    THEN LET rest == decodeURIComponent(Tail(text))
         IN [ok |-> rest.ok, text |-> <<Head(text)>> \o rest.text]
    ELSE IF Len(text) < 3 \/ unescapeHex(text[2], text[3]) = ""
    THEN [ok |-> FALSE, text |-> <<>>]
    ELSE LET rest == decodeURIComponent(SubSeq(text, 4, Len(text)))
         IN [ok |-> rest.ok, text |-> <<unescapeHex(text[2], text[3])>> \o rest.text]

isSafeMediaIdAlways(id) == TRUE

isSafeMediaId(id) ==
    IF id = <<>> THEN FALSE
    ELSE IF includesText(id, <<".", ".">>) THEN FALSE
    ELSE ~includesText(id, <<"/">>) /\ ~includesText(id, <<"\\">>)

\* path.join(mediaBaseDir, id) on POSIX, as a place relative to
\* mediaBaseDir: `up` levels above it, then down the segments
RECURSIVE normalizeJoin(_, _)
normalizeJoin(segments, place) ==
    IF segments = <<>> THEN place
    ELSE LET segment == Head(segments)
         IN IF segment = <<>> \/ segment = <<".">>
            THEN normalizeJoin(Tail(segments), place)
            ELSE IF segment = <<".", ".">>
            THEN normalizeJoin(Tail(segments),
                    IF place.down = <<>> THEN [place EXCEPT !.up = @ + 1]
                    ELSE [place EXCEPT !.down = SubSeq(@, 1, Len(@) - 1)])
            ELSE normalizeJoin(Tail(segments), [place EXCEPT !.down = Append(@, segment)])

pathJoin(id) == normalizeJoin(splitPath(id, {"/"}), [up |-> 0, down |-> <<>>])

\* what fs.stat finds at a place: "file", "directory" or "" for nothing
statKind(place) ==
    CASE place = [up |-> 0, down |-> <<<<"a">>>>] -> "file"
      [] place = [up |-> 0, down |-> <<<<"d">>, <<"x">>>>] -> "file"
      [] place = [up |-> 1, down |-> <<<<"s">>>>] -> "file"
      [] place = [up |-> 0, down |-> <<<<"d">>>>] -> "directory"
      [] place = [up |-> 0, down |-> <<>>] -> "directory"
      [] place \in {[up |-> n, down |-> <<>>] : n \in 1..3} -> "directory"
      [] OTHER -> ""

NoPlace == [up |-> 0, down |-> <<>>]

\* the handler up to `await fs.stat(filePath)`
MediaRequest ==
    /\ probe.fn = "createGeweMediaServer"
    /\ probe.pc = "request"
    /\ LET url == probe.in.url
           pathname == pathnameOf(url)
           prefix == Append(BasePath, "/")
           decoded == decodeURIComponent(SubSeq(pathname, Len(BasePath) + 2, Len(pathname)))
           ends(status) == [probe EXCEPT !.pc = "done", !.out.status = status]
       IN probe' =
            IF url = <<>> THEN ends(404)
            ELSE IF probe.in.method \notin {"GET", "HEAD"} THEN ends(405)
            ELSE IF ~startsWithText(pathname, prefix) THEN ends(404)
            ELSE IF ~decoded.ok THEN [probe EXCEPT !.pc = "done", !.out.threw = TRUE]
            ELSE IF ~isSafeMediaId(decoded.text)
            THEN [probe EXCEPT !.pc = "done", !.out.status = 400,
                               !.out.id = decoded.text, !.out.decoded = TRUE]
            ELSE [probe EXCEPT !.pc = "stat", !.out.id = decoded.text, !.out.decoded = TRUE,
                               !.out.filePath = pathJoin(decoded.text)]
    /\ PureFrame

\* fs.stat(filePath).catch(() => null) has answered
MediaStat(ok) ==
    /\ probe.fn = "createGeweMediaServer"
    /\ probe.pc = "stat"
    /\ probe' = IF ~ok \/ statKind(probe.out.filePath) # "file"
                THEN [probe EXCEPT !.pc = "done", !.out.status = 404]
                ELSE [probe EXCEPT !.pc = "detectMime"]
    /\ PureFrame

\* detectMime(...).catch(() => undefined) has answered: the headers go out,
\* and for GET the file is opened and piped into the response
MediaRespond ==
    /\ probe.fn = "createGeweMediaServer"
    /\ probe.pc = "detectMime"
    /\ probe' = IF probe.in.method = "HEAD"
                THEN [probe EXCEPT !.pc = "done", !.out.status = 200]
                ELSE [probe EXCEPT !.pc = "stream", !.out.status = 200,
                                   !.out.opened = probe.out.filePath]
    /\ PureFrame

\* the stream ends, or fails with the headers already sent
MediaStreamEnds(ok) ==
    /\ probe.fn = "createGeweMediaServer"
    /\ probe.pc = "stream"
    /\ probe' = [probe EXCEPT !.pc = "done", !.out.streamed = ok]
    /\ PureFrame

\* ------------------------------------------- delay between download jobs
\* An optional number is <<>> (undefined) or <<n>>. The account schema
\* admits non-negative integers for downloadMinDelayMs/downloadMaxDelayMs.
DEFAULT_MIN_DELAY_MS == 3000
DEFAULT_MAX_DELAY_MS == 10000

\* `value ?? fallback`
orDefault(value, fallback) == IF value = <<>> THEN fallback ELSE value[1]

\* the constructor: [minDelayMs, maxDelayMs]
newDelayRange(optsMin, optsMax) ==
    [minDelayMs |-> orDefault(optsMin, DEFAULT_MIN_DELAY_MS),
     maxDelayMs |-> orDefault(optsMax, DEFAULT_MAX_DELAY_MS)]

\* updateDelayRange(minDelayMs, maxDelayMs)
updateDelayRange(range, minDelayMs, maxDelayMs) ==
    [minDelayMs |-> IF minDelayMs # <<>> /\ minDelayMs[1] >= 0 THEN minDelayMs[1]
                    ELSE range.minDelayMs,
     maxDelayMs |-> IF maxDelayMs # <<>> /\ maxDelayMs[1] >= 0 THEN maxDelayMs[1]
                    ELSE range.maxDelayMs]

Max2(a, b) == IF a > b THEN a ELSE b

nextDelayMsNoClamp(range, quarter) ==
    ((quarter * (range.maxDelayMs - range.minDelayMs + 1)) \div 4) + range.minDelayMs

\* nextDelayMs() with Math.random() = quarter / 4, quarter in 0..3
nextDelayMs(range, quarter) ==
    LET min == Max2(0, range.minDelayMs)
        max == Max2(min, range.maxDelayMs)
    IN IF max = min THEN min
       ELSE ((quarter * (max - min + 1)) \div 4) + min

DelayOpts == {<<>>, <<0>>, <<2>>, <<5>>, <<20000>>}

DelayArgs == {<<>>, <<-1>>, <<0>>, <<2>>, <<5>>}

UpdateDelayRange(minDelayMs, maxDelayMs) ==
    /\ probe.fn = "nextDelayMs"
    /\ probe' = [probe EXCEPT !.pc = "updated",
                              !.in = updateDelayRange(probe.in, minDelayMs, maxDelayMs)]
    /\ PureFrame

\* `await sleep(this.nextDelayMs())` of the worker loop
NextDelayMs(quarter) ==
    /\ probe.fn = "nextDelayMs"
    /\ probe' = [probe EXCEPT !.pc = "sleep", !.out = nextDelayMs(probe.in, quarter)]
    /\ PureFrame

\* ---------------------------------------------------------- specifications

InitQueueVars ==
    /\ queue = <<>>
    /\ seen = [k \in Keys |-> NONE]
    /\ running = FALSE
    /\ workers = {}
    /\ nextId = 1
    /\ ret = [key |-> "", ok |-> FALSE, at |-> NONE]
    /\ started = <<>>
    /\ settled = {}
    /\ rejected = {}
    /\ unhandled = 0
    /\ accepted = {}

InitQueue ==
    /\ now = 0
    /\ InitQueueVars
    /\ IdleInstallVars
    /\ IdleInboundVars
    /\ IdleWebhookVars
    /\ IdlePureVars

NextQueue ==
    \/ Enqueue
    \/ WorkerWake
    \/ JobResolves
    \/ JobRejects
    \/ QueueTick

SpecQueue == InitQueue /\ [][NextQueue]_vars

InitInstall ==
    /\ now = 0
    /\ InitQueueVars
    /\ callers = [c \in Callers |-> [pc |-> "idle", version |-> "", key |-> <<"", "">>,
                                     isLatest |-> FALSE, inst |-> 0, result |-> "none"]]
    /\ installCache = [k \in CacheKeys |-> 0]
    /\ resolvedPathCache = [k \in CacheKeys |-> "absent"]
    /\ installs = <<>>
    /\ disk \in {{}, {"1.0"}}
    /\ assetOk \in BOOLEAN
    /\ overlap = {}
    /\ archive = IdleArchive
    /\ IdleInboundVars
    /\ IdleWebhookVars
    /\ IdlePureVars

NextInstall ==
    \/ \E c \in Callers : Call(c) /\ UNCHANGED <<now, queueVars, inboundVars, webhookVars, pureVars, archive>>
    \/ \E c \in Callers : LookupDone(c) /\ UNCHANGED <<now, queueVars, inboundVars, webhookVars, pureVars, archive>>
    \/ \E c \in Callers : AfterResolve(c) /\ UNCHANGED <<now, queueVars, inboundVars, webhookVars, pureVars, archive>>
    \/ InstallStep /\ UNCHANGED <<now, queueVars, inboundVars, webhookVars, pureVars, archive>>
    \/ InstallThen /\ UNCHANGED <<now, queueVars, inboundVars, webhookVars, pureVars, archive>>
    \/ InstallFinally /\ UNCHANGED <<now, queueVars, inboundVars, webhookVars, pureVars, archive>>
    \/ \E c \in Callers : CallerResume(c) /\ UNCHANGED <<now, queueVars, inboundVars, webhookVars, pureVars, archive>>

SpecInstall == InitInstall /\ [][NextInstall]_vars

\* The installer with an install root that holds version 1.0 from an earlier
\* run, and with the readdir of the cleanup free to fail
InitCleanup == InitInstall /\ disk = {"1.0"} /\ assetOk

NextCleanup ==
    \/ NextInstall
    \/ InstallStepUnlisted /\ UNCHANGED <<now, queueVars, inboundVars, webhookVars, pureVars, archive>>

SpecCleanup == InitCleanup /\ [][NextCleanup]_vars

\* One download of installRustSilk from `await downloadFile` to the copy,
\* with the account configuration, the two checksum files of the release and
\* the digest of the downloaded archive drawn at the start
InitChecksum ==
    /\ now = 0
    /\ InitQueueVars
    /\ IdleInboundVars
    /\ IdleWebhookVars
    /\ IdlePureVars
    /\ callers = [c \in Callers |-> [pc |-> "idle", version |-> "", key |-> <<"", "">>,
                                     isLatest |-> FALSE, inst |-> 0, result |-> "none"]]
    /\ installCache = [k \in CacheKeys |-> 0]
    /\ resolvedPathCache = [k \in CacheKeys |-> "absent"]
    /\ installs = <<>>
    /\ disk = {}
    /\ assetOk = TRUE
    /\ overlap = {}
    /\ \E sha \in ConfiguredHashes, allow \in BOOLEAN, sum \in ChecksumFiles,
          assetSum \in ChecksumFiles, actual \in ActualHashes :
         archive = [IdleArchive EXCEPT !.pc = "download", !.silkSha256 = sha,
                        !.allowUnverified = allow, !.sum = sum,
                        !.assetSum = assetSum, !.actual = actual]

ChecksumFrame == UNCHANGED <<now, queueVars, inboundVars, webhookVars, pureVars, callers, installCache,
                             resolvedPathCache, installs, disk, assetOk, overlap>>

NextChecksum ==
    \/ \E ok \in BOOLEAN : ArchiveDownloaded(ok) /\ ChecksumFrame
    \/ \E ok \in BOOLEAN : SumFetched(ok) /\ ChecksumFrame
    \/ \E ok \in BOOLEAN : AssetSumFetched(ok) /\ ChecksumFrame
    \/ \E ok \in BOOLEAN : ArchiveHashed(ok) /\ ChecksumFrame
    \/ \E ok \in BOOLEAN : ArchiveExtracted(ok) /\ ChecksumFrame
    \/ \E ok \in BOOLEAN : ArchiveCopied(ok) /\ ChecksumFrame

SpecChecksum == InitChecksum /\ [][NextChecksum]_vars

\* The HTTP side of the webhook server serving a request, with or without a
\* configured secret (the handler shares no state between requests)
InitWebhook ==
    /\ now = 0
    /\ InitQueueVars
    /\ IdleInstallVars
    /\ IdleInboundVars
    /\ secret \in {"", "s3cret"}
    /\ http = IdleHttp
    /\ IdlePureVars

WebhookFrame == UNCHANGED <<now, queueVars, installVars, inboundVars, pureVars>>

NextWebhook ==
    \/ \E url \in Urls, method \in Methods, h1, h2, h3 \in HeaderValues :
            HttpRequest(url, method, h1, h2, h3) /\ WebhookFrame
    \/ \E ok \in BOOLEAN, body \in Bodies : BodyRead(ok, body) /\ WebhookFrame
    \/ \E ok \in BOOLEAN : OnMessageSettles(ok) /\ WebhookFrame

SpecWebhook == InitWebhook /\ [][NextWebhook]_vars

\* The allowlist functions of policy.ts applied to drawn inputs
InitPolicy ==
    /\ now = 0
    /\ InitQueueVars
    /\ IdleInstallVars
    /\ IdleInboundVars
    /\ IdleWebhookVars
    /\ probe = IdleProbe
    /\ \E gp \in GroupPolicies, outer \in AllowLists, inner \in AllowLists,
          id \in PolicySenderIds, name \in PolicySenderNames :
         policy = [IdlePolicy EXCEPT !.pc = "input", !.groupPolicy = gp,
                       !.outer = outer, !.inner = inner, !.senderId = id,
                       !.senderName = name]

NextPolicy ==
    EvaluatePolicy /\ UNCHANGED <<now, queueVars, installVars, inboundVars, webhookVars, probe>>

SpecPolicy == InitPolicy /\ [][NextPolicy]_vars

InboundKeys == {"app:1", "app:2"}

\* the messages a webhook request may carry: a shape under a dedupe key
InboundMessages == {WithKey(shape, k) : shape \in InboundShapes, k \in InboundKeys}

DedupeMessages == {WithKey(shape, k) : shape \in DedupeShapes, k \in InboundKeys}

InitInbound ==
    /\ now = 0
    /\ InitQueueVars
    /\ IdleInstallVars
    /\ IdleWebhookVars
    /\ IdlePureVars
    /\ SEEN_MESSAGES = [k \in Keys |-> NONE]
    /\ reqs = [r \in Requests |-> IdleRequest]
    /\ cfg \in Configs
    /\ pairingPending = {}
    /\ pairingReplies = [p \in Senders |-> 0]
    /\ webhookErrors = 0
    /\ jobErrors = 0

NextInbound ==
    \/ \E r \in Requests, m \in InboundMessages : Receive(r, m)
    \/ \E r \in Requests, storeAllowFrom \in StoreReads : AfterStore(r, storeAllowFrom)
    \/ \E r \in Requests, ok \in BOOLEAN : PairingUpserted(r, ok)
    \/ \E r \in Requests : PairReplySettles(r)
    \/ \E r \in Requests, ok \in BOOLEAN : DispatchSettles(r, ok)
    \/ WorkerWake
    \/ \E w \in workers, outcome \in {"url", "null", "throw"} : JobDownload(w, outcome)
    \/ \E w \in workers, outcome \in {"silk", "other", "throw"} : JobFetch(w, outcome)
    \/ \E w \in workers, outcome \in {"decoded", "null", "throw"} : JobDecode(w, outcome)
    \/ \E w \in workers, ok \in BOOLEAN : JobSave(w, ok)
    \/ \E w \in workers, ok \in BOOLEAN : JobDispatchTry(w, ok)
    \/ \E w \in workers, ok \in BOOLEAN : JobDispatchCatch(w, ok)

SpecInbound == InitInbound /\ [][NextInbound]_vars

\* The dedupe cache under a running clock: requests whose handling is short
DedupeTick == Tick /\ UNCHANGED <<queueVars, installVars, inboundVars, webhookVars, pureVars>>

NextDedupe ==
    \/ \E r \in Requests, m \in DedupeMessages : Receive(r, m)
    \/ \E r \in Requests, storeAllowFrom \in StoreReads : AfterStore(r, storeAllowFrom)
    \/ \E r \in Requests, ok \in BOOLEAN : DispatchSettles(r, ok)
    \/ DedupeTick

SpecDedupe == InitInbound /\ [][NextDedupe]_vars

\* The gates of handleGeweInbound under a wide range of configurations:
\* one message, every policy mode, allowlists at channel and group level
\* with and without the wildcard. shouldHandleTextCommands is true for a
\* surface without native commands, so allowTextCommands stays TRUE.
GateConfigs ==
    { [dmPolicy |-> dm, groupPolicy |-> gp, allowFrom |-> af, groupAllowFrom |-> gaf,
       groups |-> gs, allowTextCommands |-> TRUE, useAccessGroups |-> uag,
       mentionPatterns |-> TRUE] :
        dm \in {"pairing", "open"},
        gp \in GroupPolicies,
        af \in {<<>>, <<Prefixed("wx:", "Wxid_Alice")>>, <<Raw("*")>>},
        gaf \in {<<>>, <<Raw("*")>>},
        gs \in { [g \in {} |-> NoGroup],
                 [g \in {"room1@chatroom"} |-> GroupEntry("unset", "false", <<Raw("wxid_bob")>>)],
                 [g \in {"room1@chatroom"} |-> GroupEntry("unset", "unset", <<Raw("*")>>)] },
        uag \in BOOLEAN }

GateShapes ==
    { Group("room1@chatroom", "wxid_bob", 1, "/status"),
      Group("room1@chatroom", "wxid_alice", 1, "/status"),
      Group("room1@chatroom", "wxid_bob", 1, "@bot hi"),
      Group("room1@chatroom", "wxid_bob", 3, "<img/>"),
      Dm("wxid_bob", 1, "/status"),
      Dm("wxid_alice", 1, "/status"),
      Dm("wxid_bob", 34, "<voicemsg/>") }

GateMessages == {WithKey(shape, "app:1") : shape \in GateShapes}

InitGates ==
    /\ now = 0
    /\ InitQueueVars
    /\ IdleInstallVars
    /\ IdleWebhookVars
    /\ IdlePureVars
    /\ SEEN_MESSAGES = [k \in Keys |-> NONE]
    /\ reqs = [r \in Requests |-> IdleRequest]
    /\ cfg \in GateConfigs
    /\ pairingPending = {}
    /\ pairingReplies = [p \in Senders |-> 0]
    /\ webhookErrors = 0
    /\ jobErrors = 0

NextGates ==
    \/ \E m \in GateMessages : Receive(1, m)
    \/ \E r \in Requests, storeAllowFrom \in StoreReads : AfterStore(r, storeAllowFrom)
    \/ \E r \in Requests, ok \in BOOLEAN : PairingUpserted(r, ok)
    \/ \E r \in Requests : PairReplySettles(r)
    \/ \E r \in Requests, ok \in BOOLEAN : DispatchSettles(r, ok)
    \/ WorkerWake
    \/ \E w \in workers, outcome \in {"url", "null", "throw"} : JobDownload(w, outcome)
    \/ \E w \in workers, outcome \in {"silk", "other", "throw"} : JobFetch(w, outcome)
    \/ \E w \in workers, outcome \in {"decoded", "null", "throw"} : JobDecode(w, outcome)
    \/ \E w \in workers, ok \in BOOLEAN : JobSave(w, ok)
    \/ \E w \in workers, ok \in BOOLEAN : JobDispatchTry(w, ok)
    \/ \E w \in workers, ok \in BOOLEAN : JobDispatchCatch(w, ok)

SpecGates == InitGates /\ [][NextGates]_vars

\* Direct messages under every dmPolicy, any number of them in flight at
\* once, each with its own message id
DmConfigs ==
    { [CfgDefault EXCEPT !.dmPolicy = dm, !.allowFrom = af] :
        dm \in {"disabled", "open", "pairing", "allowlist"},
        af \in {<<>>, <<Prefixed("wx:", "Wxid_Alice")>>} }

DmShapes == { Dm("wxid_bob", 1, "hello"), Dm("wxid_alice", 1, "hello") }

requestKey(r) == CASE r = 1 -> "app:1" [] r = 2 -> "app:2" [] OTHER -> "app:3"

DmMessages == {WithKey(shape, k) : shape \in DmShapes, k \in Keys}

InitDm ==
    /\ now = 0
    /\ InitQueueVars
    /\ IdleInstallVars
    /\ IdleWebhookVars
    /\ IdlePureVars
    /\ SEEN_MESSAGES = [k \in Keys |-> NONE]
    /\ reqs = [r \in Requests |-> IdleRequest]
    /\ cfg \in DmConfigs
    /\ pairingPending = {}
    /\ pairingReplies = [p \in Senders |-> 0]
    /\ webhookErrors = 0
    /\ jobErrors = 0

NextDm ==
    \/ \E r \in Requests, m \in DmMessages : m.key = requestKey(r) /\ Receive(r, m)
    \/ \E r \in Requests, storeAllowFrom \in StoreReads : AfterStore(r, storeAllowFrom)
    \/ \E r \in Requests, ok \in BOOLEAN : PairingUpserted(r, ok)
    \/ \E r \in Requests : PairReplySettles(r)
    \/ \E r \in Requests, ok \in BOOLEAN : DispatchSettles(r, ok)

SpecDm == InitDm /\ [][NextDm]_vars

\* The mention gate: groups with and without an entry of their own and a
\* "*" entry, each setting requireMention or leaving it out, with and
\* without mention patterns, every sender let in by the group policy
MentionSettings == {"unset", "true", "false"}

MentionGroups ==
    { [g \in {} |-> NoGroup] } \cup
    { [g \in {"room1@chatroom"} |-> GroupEntry("unset", own, <<>>)] :
        own \in MentionSettings } \cup
    { [g \in {"room1@chatroom", "*"} |->
          IF g = "*" THEN GroupEntry("unset", wild, <<>>)
          ELSE GroupEntry("unset", own, <<>>)] :
        own \in MentionSettings, wild \in MentionSettings }

MentionConfigs ==
    { [dmPolicy |-> "open", groupPolicy |-> "open", allowFrom |-> af,
       groupAllowFrom |-> <<>>, groups |-> gs, allowTextCommands |-> TRUE,
       useAccessGroups |-> uag, mentionPatterns |-> mp] :
        af \in {<<>>, <<Prefixed("wx:", "Wxid_Alice")>>},
        gs \in MentionGroups,
        uag \in BOOLEAN,
        mp \in BOOLEAN }

MentionMessages ==
    { WithKey(shape, "app:1") : shape \in
        { Group("room1@chatroom", "wxid_bob", 1, "hello"),
          Group("room1@chatroom", "wxid_bob", 1, "@bot hi"),
          Group("room1@chatroom", "wxid_bob", 1, "/status"),
          Group("room1@chatroom", "wxid_alice", 1, "/status"),
          Group("room3@chatroom", "wxid_bob", 1, "hello"),
          Group("room3@chatroom", "wxid_alice", 1, "/status"),
          Dm("wxid_bob", 1, "hello"),
          Dm("wxid_bob", 1, "/status") } }

InitMention ==
    /\ now = 0
    /\ InitQueueVars
    /\ IdleInstallVars
    /\ IdleWebhookVars
    /\ IdlePureVars
    /\ SEEN_MESSAGES = [k \in Keys |-> NONE]
    /\ reqs = [r \in Requests |-> IdleRequest]
    /\ cfg \in MentionConfigs
    /\ pairingPending = {}
    /\ pairingReplies = [p \in Senders |-> 0]
    /\ webhookErrors = 0
    /\ jobErrors = 0

NextMention ==
    \/ \E m \in MentionMessages : Receive(1, m)
    \/ \E r \in Requests, storeAllowFrom \in StoreReads : AfterStore(r, storeAllowFrom)
    \/ \E r \in Requests, ok \in BOOLEAN : DispatchSettles(r, ok)

SpecMention == InitMention /\ [][NextMention]_vars

\* Image messages under a running clock: the same message id may come
\* again once the webhook cache has let go of it. The download of the job
\* gives no URL or throws; the later steps of a job are those of SpecInbound.
ImageMessages ==
    { WithKey(shape, "app:1") : shape \in
        { Dm("wxid_alice", 3, "<img/>"), Dm("wxid_alice", 1, "hello") } }

NextImage ==
    \/ \E r \in Requests, m \in ImageMessages : Receive(r, m)
    \/ \E r \in Requests, storeAllowFrom \in StoreReads : AfterStore(r, storeAllowFrom)
    \/ \E r \in Requests, ok \in BOOLEAN : DispatchSettles(r, ok)
    \/ WorkerWake
    \/ \E w \in workers, outcome \in {"null", "throw"} : JobDownload(w, outcome)
    \/ \E w \in workers, ok \in BOOLEAN : JobDispatchTry(w, ok)
    \/ \E w \in workers, ok \in BOOLEAN : JobDispatchCatch(w, ok)
    \/ DedupeTick

SpecImage == InitInbound /\ [][NextImage]_vars

\* One call of a function of the media code on drawn inputs
InitPure ==
    /\ now = 0
    /\ InitQueueVars
    /\ IdleInstallVars
    /\ IdleInboundVars
    /\ IdleWebhookVars
    /\ policy = IdlePolicy

InitSilk ==
    /\ InitPure
    /\ \E buffer \in SilkBuffers, contentType \in SilkContentTypes, fileName \in SilkFileNames :
          probe = [fn |-> "looksLikeSilkVoice", pc |-> "input",
                   in |-> [buffer |-> buffer, contentType |-> contentType,
                           fileName |-> fileName],
                   out |-> FALSE]

LooksLikeSilkVoice ==
    /\ probe.pc = "input"
    /\ probe' = [probe EXCEPT !.pc = "done",
                    !.out = looksLikeSilkVoice(probe.in.buffer, probe.in.contentType,
                                               probe.in.fileName)]
    /\ PureFrame

NextSilk == LooksLikeSilkVoice

SpecSilk == InitSilk /\ [][NextSilk]_vars

InitTmpDir == InitPure /\ probe = IdleProbe

NextTmpDir ==
    \/ \E fn \in TmpDirFunctions, made \in BOOLEAN : TmpDirCall(fn, made)
    \/ \E outcome \in {"ok", "nonzero", "timeout", "empty", "reject"} : TmpDirStep(outcome)
    \/ \E removed \in BOOLEAN : TmpDirFinally(removed)

SpecTmpDir == InitTmpDir /\ [][NextTmpDir]_vars

InitThumb ==
    /\ InitPure
    /\ \E byteLength \in ThumbInputSizes, format \in {"png", "jpeg"}, contentType \in ThumbContentTypes :
          probe = [fn |-> "normalizeThumbBuffer", pc |-> "input",
                   in |-> [byteLength |-> byteLength, format |-> format,
                           contentType |-> contentType],
                   out |-> [buffer |-> [byteLength |-> byteLength, format |-> format],
                            contentType |-> "", turns |-> 0, maxSide |-> 0,
                            quality |-> 0, smallest |-> 0]]

NextThumb ==
    \/ NormalizeThumbEnter
    \/ \E byteLength \in ResizedSizes : NormalizeThumbResize(byteLength)

SpecThumb == InitThumb /\ [][NextThumb]_vars

DeliverInputs ==
    [audioAsVoice : BOOLEAN, forceFile : BOOLEAN, remote : BOOLEAN,
     ttsVoiceName : BOOLEAN, kind : {"audio", "image", "document"},
     isSilk : BOOLEAN, declaredDuration : {0, 1500},
     voiceAutoConvert : {"unset", "true", "false"}]

NoSend == [api |-> "", url |-> ""]

InitDeliver ==
    /\ InitPure
    /\ \E in \in DeliverInputs :
          probe = [fn |-> "deliverGewePayload", pc |-> "stageMedia", in |-> in,
                   out |-> [send |-> NoSend, sent |-> NoSend, failed |-> "",
                            converted |-> "", run |-> <<>>]]

NextDeliver ==
    \/ \E ok \in BOOLEAN : DeliverStage(ok)
    \/ \E made \in BOOLEAN, run \in ConvertRuns : DeliverConvert(made, run)
    \/ \E ok \in BOOLEAN : DeliverSave(ok)
    \/ \E ok \in BOOLEAN : DeliverSend(ok)

SpecDeliver == InitDeliver /\ [][NextDeliver]_vars

MediaUrls ==
    { <<>>,
      <<"/", "m">>,
      <<"/", "m", "/">>,
      <<"/", "m", "/", "a">>,
      <<"/", "m", "/", "a", "?", "x">>,
      <<"/", "m", "/", "d">>,
      <<"/", "m", "/", "z">>,
      <<"/", "m", "/", ".">>,
      <<"/", "m", "/", ".", ".", "/", "s">>,
      <<"/", "m", "/", "%", "2", "e", "%", "2", "E", "/", "s">>,
      <<"/", "m", "/", "%", "2", "E", "%", "2", "E", "%", "2", "F", "s">>,
      <<"/", "m", "/", ".", ".", "%", "2", "f", "s">>,
      <<"/", "m", "/", ".", ".", "%", "5", "C", "s">>,
      <<"/", "m", "/", "d", "%", "2", "F", "x">>,
      <<"/", "m", "/", "d", "/", "x">>,
      <<"/", "m", "/", "d", "\\", "x">>,
      <<"/", "m", "/", "a", "%", "2", "E", "%", "2", "E">>,
      <<"/", "m", "/", "%", "z", "z">>,
      <<"/", "m", "/", "a", "%", "2">>,
      <<"/", "x", "/", "a">>,
      <<"/", "x", "/", ".", ".", "/", "m", "/", "a">> }

InitMedia ==
    /\ InitPure
    /\ \E method \in {"GET", "HEAD", "POST"}, url \in MediaUrls :
          probe = [fn |-> "createGeweMediaServer", pc |-> "request",
                   in |-> [method |-> method, url |-> url],
                   out |-> [status |-> 0, threw |-> FALSE, decoded |-> FALSE, id |-> <<>>,
                            filePath |-> NoPlace, opened |-> NoPlace, streamed |-> FALSE]]

NextMedia ==
    \/ MediaRequest
    \/ \E ok \in BOOLEAN : MediaStat(ok)
    \/ MediaRespond
    \/ \E ok \in BOOLEAN : MediaStreamEnds(ok)

SpecMedia == InitMedia /\ [][NextMedia]_vars

\* isDuplicate on its own under a running clock. probe keeps the last call
\* and, of each key, whether a duplicate of it was turned down since it was
\* last accepted.
InitSeen ==
    /\ InitPure
    /\ probe = [fn |-> "isDuplicate", pc |-> "idle", in |-> [key |-> "", at |-> 0],
                out |-> [dup |-> FALSE, turnedDown |-> {}, again |-> FALSE]]

IsDuplicateCall(k) ==
    /\ probe.fn = "isDuplicate"
    /\ LET d == isDuplicate(SEEN_MESSAGES, k, now)
       IN /\ SEEN_MESSAGES' = d.seen
          /\ probe' = [probe EXCEPT
                         !.pc = "returned",
                         !.in = [key |-> k, at |-> now],
                         !.out = [dup |-> d.dup,
                                  turnedDown |-> IF d.dup THEN probe.out.turnedDown \cup {k}
                                                 ELSE probe.out.turnedDown \ {k},
                                  again |-> ~d.dup /\ k \in probe.out.turnedDown]]
    /\ UNCHANGED <<now, queueVars, installVars, webhookVars, policy, reqs, cfg,
                   pairingPending, pairingReplies, webhookErrors, jobErrors>>

SeenTick == Tick /\ UNCHANGED <<queueVars, installVars, inboundVars, webhookVars, pureVars>>

NextSeen ==
    \/ \E k \in InboundKeys : IsDuplicateCall(k)
    \/ SeenTick

SpecSeen == InitSeen /\ [][NextSeen]_vars

InitDelay ==
    /\ InitPure
    /\ \E optsMin \in DelayOpts, optsMax \in DelayOpts :
          probe = [fn |-> "nextDelayMs", pc |-> "constructed",
                   in |-> newDelayRange(optsMin, optsMax), out |-> 0]

NextDelay ==
    \/ \E minDelayMs \in DelayArgs, maxDelayMs \in DelayArgs : UpdateDelayRange(minDelayMs, maxDelayMs)
    \/ \E quarter \in 0..3 : NextDelayMs(quarter)

SpecDelay == InitDelay /\ [][NextDelay]_vars

\* The order of the checks of onMessage and handleGeweInbound: messages that
\* fail more than one of them, under the default configuration
OrderShapes ==
    { Dm(BotWxid, 10000, "hello"),
      Dm(BotWxid, 1, "hello"),
      Dm("wxid_bob", 10000, "hello"),
      Dm("wxid_bob", 1, "hello"),
      Dm("wxid_alice", 1, "hello"),
      Group("room3@chatroom", "wxid_bob", 1, "hello"),
      Group("room3@chatroom", BotWxid, 10000, "hello") }

OrderMessages == {WithKey(shape, k) : shape \in OrderShapes, k \in Keys}

InitOrder ==
    /\ InitInbound
    /\ cfg = CfgDefault

NextOrder ==
    \/ \E r \in Requests, m \in OrderMessages : m.key = requestKey(r) /\ Receive(r, m)
    \/ \E r \in Requests, storeAllowFrom \in StoreReads : AfterStore(r, storeAllowFrom)
    \/ \E r \in Requests, ok \in BOOLEAN : PairingUpserted(r, ok)
    \/ \E r \in Requests : PairReplySettles(r)
    \/ \E r \in Requests, ok \in BOOLEAN : DispatchSettles(r, ok)

SpecOrder == InitOrder /\ [][NextOrder]_vars

\* ------------------------------------------------------- outbound video
\* The video branch of deliverGewePayload (`!forceFile && kind === "video"`)
\* after the first stageMedia. in: whether the payload carries a thumbnail
\* and a duration, whether videoThumbUrl is configured, whether the staged
\* video has a local path. out.thumb is "" while there is no thumbnail.

\* `if (!thumbUrl && fallbackThumbUrl) thumbUrl = fallbackThumbUrl`, then
\* `if (thumbUrl && typeof videoDuration === "number")`, else the file send
videoAfterThumb(in, out) ==
    LET thumb == IF out.thumb = "" /\ in.fallback THEN "fallback" ELSE out.thumb
    IN [pc |-> IF thumb # "" /\ out.duration THEN "resolvePublicUrl" ELSE "sendFile",
        out |-> [out EXCEPT !.thumb = thumb]]

\* `if (!thumbUrl && stagedVideo.localPath)`
videoAfterProbe(in, out) ==
    IF out.thumb = "" /\ out.local THEN [pc |-> "generateVideoThumbBuffer", out |-> out]
    ELSE videoAfterThumb(in, out)

\* `if (typeof videoDuration !== "number" && stagedVideo.localPath)`
videoAfterRestage(in, out) ==
    IF ~out.duration /\ out.local THEN [pc |-> "probeVideoDurationSeconds", out |-> out]
    ELSE videoAfterProbe(in, out)

\* `if ((!thumbUrl || typeof videoDuration !== "number") && !stagedVideo.localPath)`
videoEnter(in, out) ==
    IF (out.thumb = "" \/ ~out.duration) /\ ~out.local THEN [pc |-> "restage", out |-> out]
    ELSE videoAfterRestage(in, out)

videoGoes(to) == [probe EXCEPT !.pc = to.pc, !.out = to.out]

\* a rejection that no try block of the branch encloses leaves
\* deliverGewePayload
videoThrows(step) == [probe EXCEPT !.pc = "threw", !.out.failed = step]

InVideo(pc) == probe.fn = "deliverVideo" /\ probe.pc = pc

VideoEnter ==
    /\ InVideo("enter")
    /\ probe' = videoGoes(videoEnter(probe.in, probe.out))
    /\ PureFrame

\* stageMedia with allowRemote false, inside try { } catch { }
VideoRestage(ok) ==
    /\ InVideo("restage")
    /\ probe' = videoGoes(videoAfterRestage(probe.in, [probe.out EXCEPT !.local = ok]))
    /\ PureFrame

\* probeVideoDurationSeconds: a duration, null (non-zero exit, no positive
\* number on stdout), or the rejection of runCommandWithTimeout
VideoProbe(outcome) ==
    /\ InVideo("probeVideoDurationSeconds")
    /\ probe' = IF outcome = "reject" THEN videoThrows("probeVideoDurationSeconds")
                ELSE videoGoes(videoAfterProbe(probe.in,
                         [probe.out EXCEPT !.duration = (outcome = "number")]))
    /\ PureFrame

\* generateVideoThumbBuffer: a buffer, null (everything inside its try
\* block), or the rejection of mkdtemp before the try block
VideoThumb(outcome) ==
    /\ InVideo("generateVideoThumbBuffer")
    /\ probe' = CASE outcome = "reject" -> videoThrows("generateVideoThumbBuffer")
                  [] outcome = "buffer" -> [probe EXCEPT !.pc = "normalizeThumbBuffer"]
                  [] OTHER -> videoGoes(videoAfterThumb(probe.in, probe.out))
    /\ PureFrame

\* normalizeThumbBuffer: within LINK_THUMB_MAX_BYTES, above it, or the
\* rejection of resizeToJpeg
VideoNormalize(outcome) ==
    /\ InVideo("normalizeThumbBuffer")
    /\ probe' = CASE outcome = "reject" -> videoThrows("normalizeThumbBuffer")
                  [] outcome = "within" -> [probe EXCEPT !.pc = "stageThumbBuffer"]
                  [] OTHER -> videoGoes(videoAfterThumb(probe.in, probe.out))
    /\ PureFrame

\* stageThumbBuffer: the public URL, or the rejection of saveMediaBuffer
VideoStageThumb(ok) ==
    /\ InVideo("stageThumbBuffer")
    /\ probe' = IF ~ok THEN videoThrows("stageThumbBuffer")
                ELSE videoGoes(videoAfterThumb(probe.in,
                         [probe.out EXCEPT !.thumb = "generated"]))
    /\ PureFrame

\* resolvePublicUrl of the thumbnail, before the try block of the send
VideoResolveThumb(ok) ==
    /\ InVideo("resolvePublicUrl")
    /\ probe' = IF ok THEN [probe EXCEPT !.pc = "sendVideoGewe"]
                ELSE videoThrows("resolvePublicUrl")
    /\ PureFrame

\* sendVideoGewe; its catch retries with the fallback thumbnail when that
\* is another one, else rethrows
VideoSend(ok) ==
    /\ InVideo("sendVideoGewe")
    /\ probe' = IF ok THEN [probe EXCEPT !.pc = "returned", !.out.sent = "video"]
                ELSE IF probe.in.fallback /\ probe.out.thumb # "fallback"
                THEN [probe EXCEPT !.pc = "retry", !.out.thumb = "fallback"]
                ELSE videoThrows("sendVideoGewe")
    /\ PureFrame

\* resolvePublicUrl and sendVideoGewe with the fallback thumbnail
VideoRetry(ok) ==
    /\ InVideo("retry")
    /\ probe' = IF ok THEN [probe EXCEPT !.pc = "returned", !.out.sent = "video"]
                ELSE videoThrows("sendVideoGewe")
    /\ PureFrame

\* the file send after the branch
VideoSendFile(ok) ==
    /\ InVideo("sendFile")
    /\ probe' = IF ok THEN [probe EXCEPT !.pc = "returned", !.out.sent = "file"]
                ELSE videoThrows("sendFileGewe")
    /\ PureFrame

VideoInputs == [thumbUrl : BOOLEAN, videoDuration : BOOLEAN, fallback : BOOLEAN, localPath : BOOLEAN]

InitVideo ==
    /\ InitPure
    /\ \E in \in VideoInputs :
          probe = [fn |-> "deliverVideo", pc |-> "enter", in |-> in,
                   out |-> [thumb |-> IF in.thumbUrl THEN "payload" ELSE "",
                            duration |-> in.videoDuration, local |-> in.localPath,
                            sent |-> "", failed |-> ""]]

NextVideo ==
    \/ VideoEnter
    \/ \E ok \in BOOLEAN : VideoRestage(ok)
    \/ \E outcome \in {"number", "null", "reject"} : VideoProbe(outcome)
    \/ \E outcome \in {"buffer", "null", "reject"} : VideoThumb(outcome)
    \/ \E outcome \in {"within", "above", "reject"} : VideoNormalize(outcome)
    \/ \E ok \in BOOLEAN : VideoStageThumb(ok)
    \/ \E ok \in BOOLEAN : VideoResolveThumb(ok)
    \/ \E ok \in BOOLEAN : VideoSend(ok)
    \/ \E ok \in BOOLEAN : VideoRetry(ok)
    \/ \E ok \in BOOLEAN : VideoSendFile(ok)

SpecVideo == InitVideo /\ [][NextVideo]_vars

\* ------------------------------------------------------- silk decoding
\* decodeSilkVoice up to the end of its candidate loops. in.voiceDecodePath
\* is the configured string ("" when unset), in.voiceDecodeArgs whether a
\* custom argument template is configured. out.file tells whether the
\* output file of the decoders exists and is not empty: every candidate
\* writes to the one decodePath.
fallbackArgs ==
    << <<"{input}", "{output}">>,
       <<"-i", "{input}", "-o", "{output}">>,
       <<"{input}", "-o", "{output}">>,
       <<"-i", "{input}", "{output}">> >>

rustArgs ==
    <<"decode", "-i", "{input}", "-o", "{output}", "--sample-rate", "{sampleRate}", "--quiet">>

customArgs(voiceDecodeArgs) == IF voiceDecodeArgs THEN << <<"{input}", "custom">> >> ELSE <<>>

RustSilkPath == "/data/rust-silk"

legacyCandidatesAfterRust(customPath, rustSilk) ==
    IF customPath # "" THEN <<customPath>>
    ELSE IF rustSilk # "" THEN <<rustSilk, "silk-decoder", "silk-v3-decoder", "decoder">>
    ELSE <<"silk-decoder", "silk-v3-decoder", "decoder">>

\* `customPath ? [customPath] : rustSilk ? [rustSilk] : [...]`; rustSilk is
\* "" for the null of the installer
decodeCandidates(customPath, rustSilk) ==
    IF customPath # "" THEN <<customPath>>
    ELSE IF rustSilk # "" THEN <<rustSilk>>
    ELSE <<"silk-decoder", "silk-v3-decoder", "decoder">>

\* `customArgs.length ? customArgs : rustSilk ? [rustArgs] : fallbackArgs`
decodeArgTemplates(voiceDecodeArgs, rustSilk) ==
    IF Len(customArgs(voiceDecodeArgs)) > 0 THEN customArgs(voiceDecodeArgs)
    ELSE IF rustSilk # "" THEN <<rustArgs>>
    ELSE fallbackArgs

\* `result.code === 0` and `stat?.isFile() && stat.size > 0`
candidateDecoded(code, file) == code = "0" /\ file

loopAfterCandidateNoBreak(out, decoded) ==
    IF out.t < Len(out.argTemplates) THEN [out EXCEPT !.t = @ + 1, !.decoded = @ \/ decoded]
    ELSE IF out.b < Len(out.candidates)
    THEN [out EXCEPT !.b = @ + 1, !.t = 1, !.decoded = @ \/ decoded]
    ELSE [out EXCEPT !.pc = IF out.decoded \/ decoded THEN "decoded" ELSE "failed",
                     !.decoded = @ \/ decoded]

\* The two loops after one candidate: `decoded = true; break` and
\* `if (decoded) break`, else the next template, else the next binary, else
\* `if (!decoded) return null`
loopAfterCandidate(out, decoded) ==
    IF decoded THEN [out EXCEPT !.decoded = TRUE, !.pc = "decoded"]
    ELSE IF out.t < Len(out.argTemplates) THEN [out EXCEPT !.t = @ + 1]
    ELSE IF out.b < Len(out.candidates) THEN [out EXCEPT !.b = @ + 1, !.t = 1]
    ELSE [out EXCEPT !.pc = "failed"]

InDecode(pc) == probe.fn = "decodeSilkVoice" /\ probe.pc = pc

decodeReady(rustSilk) ==
    [probe EXCEPT !.pc = "writeFile",
                  !.out.rustSilk = rustSilk,
                  !.out.candidates = decodeCandidates(trim(probe.in.voiceDecodePath), rustSilk),
                  !.out.argTemplates = decodeArgTemplates(probe.in.voiceDecodeArgs, rustSilk)]

\* the call up to `customPath ? null : await ensureRustSilkBinary(...)`
DecodeCall ==
    /\ InDecode("call")
    /\ probe' = IF trim(probe.in.voiceDecodePath) # "" THEN decodeReady("")
                ELSE [probe EXCEPT !.pc = "ensureRustSilkBinary", !.out.installerCalled = TRUE]
    /\ PureFrame

\* ensureRustSilkBinary settles with a path or null
DecodeInstallerSettles(rustSilk) ==
    /\ InDecode("ensureRustSilkBinary")
    /\ probe' = decodeReady(rustSilk)
    /\ PureFrame

\* mkdtemp and `await fs.writeFile(silkPath, params.buffer)`
DecodeWriteFile(ok) ==
    /\ InDecode("writeFile")
    /\ probe' = [probe EXCEPT !.pc = IF ok THEN "loop" ELSE "threw"]
    /\ PureFrame

\* One candidate: runCommandWithTimeout exits with 0 or not, or rejects;
\* the candidate may have written output before.
DecodeCandidate(code, writes) ==
    /\ InDecode("loop")
    /\ LET out == probe.out
           file == out.file \/ writes
           ran == [out EXCEPT !.file = file,
                              !.runs = Append(@, <<out.candidates[out.b], out.argTemplates[out.t]>>),
                              !.last = IF candidateDecoded(code, file) THEN "decoded" ELSE code,
                              !.pc = "loop"]
           next == loopAfterCandidate(ran, candidateDecoded(code, file))
       IN probe' = [probe EXCEPT !.pc = next.pc, !.out = next]
    /\ PureFrame

DecodeInputs == [voiceDecodePath : {"", "  ", "/opt/decoder"}, voiceDecodeArgs : BOOLEAN]

InitDecode ==
    /\ InitPure
    /\ \E in \in DecodeInputs :
          probe = [fn |-> "decodeSilkVoice", pc |-> "call", in |-> in,
                   out |-> [pc |-> "call", candidates |-> <<>>, argTemplates |-> <<>>,
                            b |-> 1, t |-> 1, decoded |-> FALSE, file |-> FALSE,
                            runs |-> <<>>, last |-> "", installerCalled |-> FALSE,
                            rustSilk |-> ""]]

NextDecode ==
    \/ DecodeCall
    \/ \E rustSilk \in {"", RustSilkPath} : DecodeInstallerSettles(rustSilk)
    \/ \E ok \in BOOLEAN : DecodeWriteFile(ok)
    \/ \E code \in {"0", "1", "reject"}, writes \in BOOLEAN : DecodeCandidate(code, writes)

SpecDecode == InitDecode /\ [][NextDecode]_vars

\* The two caches of ensureRustSilkBinary from an empty install root, on a
\* platform with a release asset
InitCaches ==
    /\ InitInstall
    /\ disk = {}
    /\ assetOk

SpecCaches == InitCaches /\ [][NextInstall]_vars

\* ------------------------------------------------- what a payload sends
\* deliverGewePayload from its call to its return: which of its three
\* branches runs and which send functions are called. in.link: whether the
\* channel data carries a link; in.mediaUrl, in.mediaUrls0 and in.text are
\* the strings of the payload ("" when absent); in.retry: whether the media
\* is a video with a fallback thumbnail to retry with.

oneOf(a, b) == IF a # "" THEN a ELSE b

\* `payload.mediaUrl?.trim() || payload.mediaUrls?.[0]?.trim() || ""`
payloadMediaUrl(in) == oneOf(trim(in.mediaUrl), oneOf(trim(in.mediaUrls0), ""))

payloadBranchTextFirst(link, mediaUrl, trimmedText) ==
    IF trimmedText # "" THEN "text"
    ELSE IF link THEN "link"
    ELSE IF mediaUrl # "" THEN "media"
    ELSE "null"

\* `if (geweData?.link) {...}`, `if (mediaUrl) {...}`, `if (trimmedText)
\* {...}`, `return null`: each block returns
payloadBranch(link, mediaUrl, trimmedText) ==
    IF link THEN "link"
    ELSE IF mediaUrl # "" THEN "media"
    ELSE IF trimmedText # "" THEN "text"
    ELSE "null"

InPayload(pc) == probe.fn = "deliverGewePayload/branches" /\ probe.pc = pc

\* the call up to the first await of the branch taken
PayloadCall ==
    /\ InPayload("call")
    /\ LET branch == payloadBranch(probe.in.link, payloadMediaUrl(probe.in), trim(probe.in.text))
       IN probe' = [probe EXCEPT
              !.out.branch = branch,
              !.out.result = IF branch = "null" THEN "null" ELSE @,
              !.pc = CASE branch = "link" -> "resolveLinkThumbUrl"
                       [] branch = "media" -> "stageMedia"
                       [] branch = "text" -> "sendTextGewe"
                       [] OTHER -> "returned"]
    /\ PureFrame

\* resolveLinkThumbUrl, or stageMedia with what prepares the media send:
\* a rejection leaves deliverGewePayload
PayloadPrepare(ok) ==
    /\ InPayload("resolveLinkThumbUrl") \/ InPayload("stageMedia")
    /\ probe' = IF ~ok THEN [probe EXCEPT !.pc = "threw", !.out.result = "throw"]
                ELSE [probe EXCEPT !.pc = IF probe.pc = "stageMedia" THEN "sendMedia"
                                          ELSE "sendLinkGewe"]
    /\ PureFrame

\* one call of a send function (for media: sendVoiceGewe, sendImageGewe,
\* sendVideoGewe or sendFileGewe); only the catch around sendVideoGewe
\* sends again, with the fallback thumbnail
PayloadSend(ok) ==
    /\ InPayload("sendLinkGewe") \/ InPayload("sendMedia") \/ InPayload("sendTextGewe")
    /\ LET called == [probe EXCEPT !.out.calls = Append(@, probe.pc)]
       IN probe' =
            IF ok THEN [called EXCEPT !.pc = "returned", !.out.result = "result",
                                      !.out.sent = Append(@, probe.pc)]
            ELSE IF probe.pc = "sendMedia" /\ probe.in.retry /\ Len(probe.out.calls) = 0
            THEN called
            ELSE [called EXCEPT !.pc = "threw", !.out.result = "throw"]
    /\ PureFrame

PayloadInputs ==
    [link : BOOLEAN, mediaUrl : {"", "  ", "/tmp/a.mp4"}, mediaUrls0 : {"", "/tmp/b.png"},
     text : {"", "  ", "hello"}, retry : BOOLEAN]

InitPayload ==
    /\ InitPure
    /\ \E in \in PayloadInputs :
          probe = [fn |-> "deliverGewePayload/branches", pc |-> "call", in |-> in,
                   out |-> [branch |-> "", calls |-> <<>>, sent |-> <<>>, result |-> "none"]]

NextPayload ==
    \/ PayloadCall
    \/ \E ok \in BOOLEAN : PayloadPrepare(ok)
    \/ \E ok \in BOOLEAN : PayloadSend(ok)

SpecPayload == InitPayload /\ [][NextPayload]_vars

\* ------------------------------------------------- claims on the queue

Range(f) == {f[i] : i \in DOMAIN f}

\* the jobs that are queued or held by a worker (sleeping or running)
LiveJobs == Range(queue) \cup {w.job : w \in workers}

Executing == {w \in workers : w.pc = "job"}

\* C3: at most one job is executing at any time, and at most one worker loop
\* is alive, whatever the interleaving of enqueue calls with the loop.
C3_OneJobAtATime ==
    /\ Cardinality(Executing) <= 1
    /\ Cardinality(workers) <= 1
    /\ Cardinality({i \in Range(started) : i \notin settled}) <= 1

\* an enqueue was accepted while a job was running, after an earlier loop
\* had found the queue empty and ended
C3_Witness ==
    /\ Executing # {}
    /\ Len(queue) > 0
    /\ \E w \in Executing : \E i \in settled : \E j \in accepted :
          /\ j.id = i
          /\ i < w.job.id
          /\ w.job.at > j.at

\* C4: jobs start in the order they were enqueued, and a job starts only
\* when every job enqueued before it has finished (resolved or rejected).
C4_Fifo ==
    /\ \A i, j \in 1..Len(started) : i < j => started[i] < started[j]
    /\ \A i \in 1..Len(started) :
          \A id \in 1..(started[i] - 1) : id \in settled \/ started[i] \in settled
    /\ \A w \in Executing : \A id \in 1..(w.job.id - 1) : id \in settled

\* three jobs with distinct keys were enqueued and all three started
C4_Witness ==
    /\ Len(started) = 3
    /\ \A a, b \in accepted : a.id # b.id => a.key # b.key
    /\ \E w \in workers : w.pc = "job" /\ w.job.id = 3 /\ rejected = {}

\* C5: a failing job's error is caught inside the queue: no rejection leaves
\* run() unhandled, and the loop goes on with the jobs still queued.
C5_ErrorCaughtInQueue ==
    /\ unhandled = 0
    /\ (rejected # {} /\ Len(queue) > 0) => workers # {}

\* C6: at most one job with a given key is queued or running, whatever the
\* time elapsed between the enqueue calls.
C6_OneLiveJobPerKey ==
    \A a, b \in LiveJobs : a.key = b.key => a.id = b.id

\* C7: enqueue returns false and appends nothing when the key was accepted
\* within the last 12 hours; otherwise it appends the job, returns true and
\* leaves the worker loop running. No two accepted jobs of one key lie within
\* 12 hours of each other, and no job is started twice.
C7_EnqueueStep ==
    ret' # ret =>
        LET k == ret'.key
            recent == seen[k] # NONE /\ now - seen[k] <= QUEUE_DEDUPE_TTL_MS
        IN IF recent
           THEN /\ ~ret'.ok
                /\ queue' = queue /\ workers' = workers /\ accepted' = accepted
           ELSE /\ ret'.ok
                /\ \E j \in accepted' \ accepted :
                      /\ j.key = k
                      /\ accepted' = accepted \cup {j}
                      /\ \/ queue' = Append(queue, j)
                         \/ \E w \in workers' \ workers :
                               <<w.job>> \o queue' = Append(queue, j)
                /\ running'
                /\ workers' # {}

C7_EnqueueContract ==
    /\ [][C7_EnqueueStep]_vars
    /\ [](\A a, b \in accepted :
            (a.key = b.key /\ a.id < b.id) => b.at - a.at > QUEUE_DEDUPE_TTL_MS)
    /\ [](\A i, j \in 1..Len(started) : i # j => started[i] # started[j])

\* a key is enqueued again within its TTL, later than its acceptance, and
\* the call returns false
C7_Witness ==
    /\ ~ret.ok
    /\ ret.at # NONE
    /\ seen[ret.key] # NONE
    /\ ret.at > seen[ret.key]
    /\ \E j \in accepted : j.key = ret.key /\ j.id \in settled

\* --------------------------------------------- claims on the installer

InstallIds == 1..Len(installs)

Downloads(ids) == {i \in ids : installs[i].downloaded}

Returned(c) == callers[c].pc = "done" /\ callers[c].result \in {"null", "path"}

\* C2 as claimed: calls with the same version input that were in flight at
\* the same time trigger one download attempt at most between them, and
\* those that return a value return the same one; "latest" included.
C2_OneDownloadPerVersionInput ==
    \A c, d \in Callers :
        ({c, d} \in overlap /\ c # d /\ callers[c].version = callers[d].version) =>
            /\ Cardinality(Downloads({callers[c].inst, callers[d].inst} \ {0})) <= 1
            /\ (Returned(c) /\ Returned(d)) => callers[c].result = callers[d].result

\* C2 (amended): the calls that resolve to one cache key (base URL, tag,
\* folder, asset, platform, arch) trigger one download attempt at most, one
\* install is in flight per key at most, a call that finds the key in
\* flight waits for that install, and the calls of one key that return a
\* value return the same one.
C2_OneDownloadPerCacheKey ==
    /\ \A k \in CacheKeys :
          /\ Cardinality(Downloads({i \in InstallIds : installs[i].key = k})) <= 1
          /\ Cardinality({i \in InstallIds : installs[i].key = k /\
                installs[i].pc \notin {"settled", "settledRejected"}}) <= 1
    /\ \A c \in Callers :
          callers[c].inst # 0 => installs[callers[c].inst].key = callers[c].key
    /\ \A c, d \in Callers :
          (Returned(c) /\ Returned(d) /\ callers[c].key = callers[d].key) =>
              callers[c].result = callers[d].result

\* two calls for "latest" were in flight together, resolved the same tag,
\* shared one install that downloaded, and both have returned its result
C2_Witness ==
    \E c, d \in Callers :
        /\ c # d
        /\ {c, d} \in overlap
        /\ callers[c].version = "latest" /\ callers[d].version = "latest"
        /\ callers[c].inst # 0
        /\ callers[c].inst = callers[d].inst
        /\ installs[callers[c].inst].downloaded
        /\ callers[c].pc = "done" /\ callers[d].pc = "done"
        /\ callers[c].result = "path"

\* C11: ensureRustSilkBinary never raises: whatever step of the install
\* fails, no install promise rejects and every caller gets a path or null.
C11_EnsureNeverRaises ==
    /\ \A c \in Callers : callers[c].result # "throw"
    /\ \A i \in InstallIds : installs[i].pc \notin {"rejected", "settledRejected"}

\* the hash resolveChecksum gives for the release as it is, every fetch
\* succeeding
ExpectedHash ==
    resolveChecksum(archive.silkSha256, archive.sum, archive.assetSum, AssetName)

\* C12: the archive is extracted, and its binary copied, only if its SHA-256
\* equals the expected hash (the configured silkSha256 before sha256.sum
\* before the per-asset file), or if no expected hash was resolved and
\* silkAllowUnverified is true; a missing checksum without
\* silkAllowUnverified and a mismatch abort with nothing installed.
C12_ChecksumGuardsInstall ==
    /\ (archive.extracted \/ archive.installed) =>
          \/ archive.expected # "" /\ archive.actual = archive.expected
          \/ archive.expected = "" /\ archive.allowUnverified
    /\ (archive.extracted /\ trim(archive.silkSha256) # "") =>
          archive.actual = hashToLowerCase(trim(archive.silkSha256))
    /\ (archive.extracted /\ archive.expected # "") =>
          archive.expected \in {ExpectedHash, checksumFromAssetSum(archive.assetSum, AssetName)}
    /\ (archive.expected # "" /\ archive.actual # archive.expected) => ~archive.installed
    /\ (archive.pc \notin {"idle", "download", "fetchSum", "fetchAssetSum"}
            /\ archive.expected = "" /\ ~archive.allowUnverified) =>
          ~archive.extracted /\ ~archive.installed

\* a verified install with the hash taken from sha256.sum, written in
\* capitals there
C12_Witness ==
    /\ archive.installed
    /\ trim(archive.silkSha256) = ""
    /\ archive.expected = "aa"
    /\ parseChecksum(archive.sum, AssetName) = "aa"

\* ------------------------------------------------ claims on the webhook

Answered == http.pc \in {"done", "onMessage"} /\ ~http.streamError

\* a body that parses and has every required field, each a string (MsgType
\* a number)
WellFormedBody(b) ==
    /\ b.json /\ b.Data
    /\ b.Appid = "text" /\ b.Wxid = "text"
    /\ b.FromUserName = "text" /\ b.ToUserName = "text"
    /\ b.MsgType = "number"
    /\ b.Content # "number"

BadToken(req) ==
    /\ secret # ""
    /\ resolveWebhookToken(req.headers) # secret
    /\ req.token # secret

\* the status the classification of the claim gives
ClaimedStatus ==
    IF isHealthCheck(http.req) THEN 200
    ELSE IF ~isWebhookPost(http.req) THEN 404
    ELSE IF BadToken(http.req) THEN 401
    ELSE IF ~WellFormedBody(http.body) THEN 400
    ELSE 200

\* C13: a request is answered by the first check it fails, in this order:
\* health path 200 without authentication, other path or method 404, bad
\* token 401, malformed or incomplete body 400; onMessage is invoked only
\* for a request that passes them all.
C13_RequestClassification ==
    Answered =>
        /\ http.responses = <<ClaimedStatus>>
        /\ http.onMessage # "no" <=>
              (ClaimedStatus = 200 /\ ~isHealthCheck(http.req))

\* C14: for an accepted request 200 is written before onMessage starts,
\* every request gets exactly one response, and a rejection of onMessage is
\* logged through onError once, with no second response and no 500.
C14_RespondThenProcess ==
    /\ http.onMessage # "no" => (http.respondedFirst /\ http.responses = <<200>>)
    /\ http.pc = "done" => Len(http.responses) = 1
    /\ http.onMessage = "rejected" => http.errors = 1
    /\ http.onMessage \in {"running", "resolved"} => http.errors = 0

\* onMessage rejected after the 200 of a request that needed its token
C14_Witness ==
    /\ http.pc = "done"
    /\ http.onMessage = "rejected"
    /\ secret # ""
    /\ http.responses = <<200>>

\* ------------------------------------------- claims on the allowlist policy

\* some entry of the list is "*" once normalized
HasWildcard(list) == \E i \in 1..Len(list) : normalizeAllowEntry(list[i]) = "*"

\* C16: an allowlist that contains "*" once its entries are trimmed,
\* lower-cased and stripped of the channel prefix allows every sender id and
\* name, and an empty allowlist allows nobody.
C16_WildcardAllowsAll ==
    policy.pc = "done" =>
        /\ HasWildcard(policy.outer) => policy.outerMatch
        /\ policy.outer = <<>> => ~policy.outerMatch
        /\ normalizeGeweAllowlist(policy.outer) = <<>> => ~policy.outerMatch

\* a sender on no list, allowed by a wildcard written with a prefix
C16_Witness ==
    /\ policy.pc = "done"
    /\ policy.outer = << Raw("wxid_bob"), Prefixed("gewe:", "*") >>
    /\ policy.senderId = "wxid_carol"
    /\ policy.outerMatch

\* C17: under groupPolicy "allowlist" the outer and the inner allowlist
\* combine with OR: the sender is allowed exactly when they match the outer
\* list or the inner list (nobody when both are empty).
C17_OuterOrInner ==
    (policy.pc = "done" /\ policy.groupPolicy = "allowlist") =>
        (policy.groupAllow <=> (policy.outerMatch \/ policy.innerMatch))

\* ---------------------------------------- claims on the inbound pipeline

Received(r) == reqs[r].pc # "idle"

\* an earlier request with the same key that reached handleGeweInbound no
\* more than the TTL before request r
HandledBefore(r) ==
    \E q \in Requests :
        /\ q < r
        /\ reqs[q].handled
        /\ reqs[q].msg.key = reqs[r].msg.key
        /\ reqs[r].at - reqs[q].at <= DEDUPE_TTL_MS

\* C1: among the webhook requests that carry the same (appId, newMessageId),
\* whatever their interleaving, a request reaches handleGeweInbound exactly
\* when it is not a self message and no earlier request with that key
\* reached it within the last 12 hours: the first one is handled, every
\* later one inside the window is dropped by the check-and-insert.
C1_FirstSubmissionOnly ==
    \A r \in Requests :
        Received(r) => (reqs[r].handled <=> (~isSelf(reqs[r].msg) /\ ~HandledBefore(r)))

\* two requests with the same key, the second one arriving later but inside
\* the window while the first one is still being handled, and dropped
C1_Witness ==
    \E q, r \in Requests :
        /\ q < r
        /\ reqs[q].handled /\ reqs[q].pc \in {"store", "dispatch"}
        /\ reqs[r].msg.key = reqs[q].msg.key
        /\ reqs[r].at > reqs[q].at
        /\ reqs[r].dropped = "duplicate" /\ ~reqs[r].handled

\* the gates let the message through and the routing has something to
\* dispatch (not a file notice or an unhandled app message type)
PassedGates(r) ==
    /\ reqs[r].handled
    /\ reqs[r].dropped = ""
    /\ reqs[r].pc \notin {"idle", "store"}
    /\ route(reqs[r].msg) # "skip"

JobOf(r) == {j \in accepted : j.msg = r}

\* the handler has returned and, if it enqueued a job, the job has settled
Finished(r) ==
    /\ reqs[r].pc = "done"
    /\ \A j \in JobOf(r) : j.id \in settled

\* C8: a message that passes all gates leads to exactly one invocation of
\* dispatchGeweInbound: never two, and one by the time its handling (handler
\* and download job) is over, whatever fails inside the job.
C8_ExactlyOneDispatch ==
    \A r \in Requests :
        /\ reqs[r].calls <= 1
        /\ (PassedGates(r) /\ Finished(r)) => reqs[r].calls = 1

GateNames == {"msgType", "self", "groupAllowlist", "groupDisabled", "groupSender",
              "dmPolicy", "command", "mention"}

\* C9: once a gate (message type, self message, group allowlist, disabled
\* group, group sender policy, DM policy, unauthorized group command,
\* mention gate) has dropped a message, dispatchGeweInbound is never invoked
\* for it and no download job is enqueued for it.
C9_DropIsTerminal ==
    \A r \in Requests :
        reqs[r].dropped \in GateNames =>
            /\ reqs[r].calls = 0
            /\ ~reqs[r].enq
            /\ JobOf(r) = {}
            /\ reqs[r].pc \in {"done", "pairing", "pairReply"}

\* every gate of the claim has dropped some request that is over, while
\* another request was dispatched
C9_Witness ==
    /\ \E r \in Requests : reqs[r].dropped = "mention" /\ reqs[r].pc = "done"
    /\ \E r \in Requests : reqs[r].calls = 1

\* C10: no exception raised while a message is processed escapes: the
\* rejections of the webhook continuation are caught and logged, and no
\* download job lets one out of the queue's run() as an unhandled rejection.
C10_NoEscapingException ==
    /\ unhandled = 0
    /\ rejected = {}

\* ------------------------------------------------- claims on the gates

PastGates(r) == reqs[r].handled /\ reqs[r].pc # "store"

NeverReachesAgent(r) ==
    /\ reqs[r].calls = 0
    /\ ~reqs[r].enq
    /\ JobOf(r) = {}

\* C15: with groupPolicy "disabled" no group message gets through, whatever
\* the channel-level, pairing-store and per-group allowlists hold, the
\* wildcard included: it is neither dispatched nor given a download job.
C15_GroupPolicyDisabled ==
    \A r \in Requests :
        (reqs[r].handled /\ isGroupChat(reqs[r].msg) /\ cfg.groupPolicy = "disabled") =>
            /\ NeverReachesAgent(r)
            /\ PastGates(r) => reqs[r].dropped \in GateNames

\* a group message dropped by the sender policy although every list holds
\* the wildcard
C15_Witness ==
    \E r \in Requests :
        /\ cfg.groupPolicy = "disabled"
        /\ cfg.allowFrom = <<Raw("*")>> /\ cfg.groupAllowFrom = <<Raw("*")>>
        /\ "room1@chatroom" \in DOMAIN cfg.groups
        /\ cfg.groups["room1@chatroom"].allowFrom = <<Raw("*")>>
        /\ reqs[r].pc = "done" /\ reqs[r].dropped = "groupSender"

\* the allowlist the command gate consults for message m when the store
\* read gives st
CommandAllowFrom(m, st) ==
    LET base == IF isGroupChat(m) /\ Len(normalizeGeweAllowlist(cfg.groupAllowFrom)) > 0
                THEN cfg.groupAllowFrom ELSE cfg.allowFrom
    IN base \o st

\* the sender of m is command-authorized when the store read gives st
CommandAuthorized(m, st) ==
    \/ ~cfg.useAccessGroups
    \/ resolveGeweAllowlistMatch(CommandAllowFrom(m, st), Raw(m.senderId), Raw(""))

Unauthorized(m) == \A st \in StoreReads : ~CommandAuthorized(m, st)

\* C19: a group message with a control command from a sender who is not
\* command-authorized is dropped outright, neither dispatched nor enqueued
\* for download, while the same command in a direct message is not dropped
\* by the command gate.
C19_UnauthorizedGroupCommand ==
    \A r \in Requests :
        (PastGates(r) /\ hasControlCommand(rawBodyCandidate(reqs[r].msg))
                      /\ Unauthorized(reqs[r].msg)) =>
            IF isGroupChat(reqs[r].msg)
            THEN reqs[r].dropped \in GateNames /\ NeverReachesAgent(r)
            ELSE reqs[r].dropped # "command"

\* the command gate itself has dropped a group command, and in another
\* configuration an unauthorized command in a direct message was dispatched
C19_Witness ==
    \E r \in Requests :
        /\ reqs[r].pc = "done"
        /\ Unauthorized(reqs[r].msg)
        /\ isGroupChat(reqs[r].msg)
        /\ reqs[r].dropped = "command"
        /\ cfg.groupPolicy = "allowlist"

\* the room entry of the group of m, NoGroup for a direct message
RoomOf(m) ==
    IF isGroupChat(m) THEN resolveGeweGroupMatch(cfg.groups, m.fromId).groupConfig
    ELSE NoGroup

\* the sender matches a configured allowlist, channel-level or per-group
OnSomeAllowlist(m) ==
    \/ resolveGeweAllowlistMatch(CommandAllowFrom(m, <<>>), Raw(m.senderId), Raw(""))
    \/ resolveGeweAllowlistMatch(RoomOf(m).allowFrom, Raw(m.senderId), Raw(""))

\* C20: a control command is authorized when the sender matches an
\* allowlist, outer or inner, or the deployment trusts all text commands; so
\* the command of a group sender listed only in the per-group allowFrom is
\* not dropped as unauthorized.
C20_CommandAuthorizedByAnyList ==
    \A r \in Requests :
        (PastGates(r) /\ hasControlCommand(rawBodyCandidate(reqs[r].msg))
                      /\ (OnSomeAllowlist(reqs[r].msg) \/ ~cfg.useAccessGroups)) =>
            reqs[r].dropped # "command"

\* the sender of m matches neither the configured allowFrom nor anything the
\* pairing store may return
MatchesNoDmList(m) ==
    \A st \in StoreReads :
        ~resolveGeweAllowlistMatch(cfg.allowFrom \o st, Raw(m.senderId), Raw(""))

RequestsOf(s) == {r \in Requests : Received(r) /\ reqs[r].msg.senderId = s}

RequireMentionSetting(m) ==
    LET own == IF m.fromId \in DOMAIN cfg.groups
               THEN cfg.groups[m.fromId].requireMention ELSE "unset"
        wild == IF "*" \in DOMAIN cfg.groups
                THEN cfg.groups["*"].requireMention ELSE "unset"
    IN IF own # "unset" THEN own = "true"
       ELSE IF wild # "unset" THEN wild = "true"
       ELSE TRUE

Mentioned(m) == cfg.mentionPatterns /\ matchesMentionPatterns(rawBodyCandidate(m))

AuthorizedCommand(m) ==
    /\ cfg.allowTextCommands
    /\ hasControlCommand(rawBodyCandidate(m))
    /\ \E st \in StoreReads : CommandAuthorized(m, st)

ReachedMentionGate(r) ==
    /\ PastGates(r)
    /\ reqs[r].dropped \in {"", "mention"}

\* C21: a group message that reaches the mention gate is dropped there
\* exactly when the group requires a mention (its own entry first, then the
\* "*" entry, true when neither says), no mention pattern matches the body
\* and it is not an authorized control command with text commands allowed;
\* a direct message is never dropped by the mention gate.
C21_MentionGate ==
    \A r \in Requests :
        ReachedMentionGate(r) =>
            IF isGroupChat(reqs[r].msg)
            THEN (reqs[r].dropped = "mention" /\ NeverReachesAgent(r))
                    <=> (/\ RequireMentionSetting(reqs[r].msg)
                         /\ ~Mentioned(reqs[r].msg)
                         /\ ~AuthorizedCommand(reqs[r].msg))
            ELSE reqs[r].dropped # "mention"

\* an authorized control command without a mention went to the agent from a
\* group whose "*" entry requires a mention and whose own entry says nothing
C21_Witness ==
    \E r \in Requests :
        /\ isGroupChat(reqs[r].msg)
        /\ "*" \in DOMAIN cfg.groups /\ cfg.groups["*"].requireMention = "true"
        /\ reqs[r].msg.fromId \in DOMAIN cfg.groups
        /\ cfg.groups[reqs[r].msg.fromId].requireMention = "unset"
        /\ reqs[r].msg.text = "/status"
        /\ reqs[r].pc = "done" /\ reqs[r].dropped = "" /\ reqs[r].calls = 1

\* request r carries an image with an xml payload and its handler has
\* returned without a gate dropping it
ImageHandled(r) ==
    /\ reqs[r].msg.msgType = 3
    /\ reqs[r].msg.text # ""
    /\ PassedGates(r)
    /\ reqs[r].pc = "done"

\* dispatchGeweInbound has run for r only from inside its download job
OnlyFromItsJob(r) ==
    /\ reqs[r].pc # "dispatch"
    /\ reqs[r].calls > 0 => \E j \in JobOf(r) : \E i \in 1..Len(started) : started[i] = j.id

\* C22 as stated: an image message with an xml payload that passes the
\* gates enqueues exactly one download job, keyed by its dedupe key, and is
\* not dispatched outside that job.
C22_ImageEnqueuesOneJob ==
    \A r \in Requests :
        ImageHandled(r) =>
            /\ Cardinality(JobOf(r)) = 1
            /\ \A j \in JobOf(r) : j.key = dedupeKey(reqs[r].msg)
            /\ OnlyFromItsJob(r)

\* C22 amended: the step in which the handler of such an image returns
\* either appends one job under the dedupe key of the message, or the queue
\* refuses it because it accepted a job under that key no more than the TTL
\* ago; the message is never dispatched outside a job of its own, and never
\* gets two jobs.
C22_ImageEnqueuesAtMostOneJob ==
    [][\A r \in Requests :
          /\ (~ImageHandled(r) /\ ImageHandled(r)') =>
                \/ /\ Cardinality(JobOf(r)') = 1
                   /\ \A j \in JobOf(r)' : j.key = dedupeKey(reqs'[r].msg) /\ j.at = now
                \/ /\ JobOf(r)' = {}
                   /\ ret'.ok = FALSE /\ ret'.key = dedupeKey(reqs'[r].msg)
                   /\ \E j \in accepted : /\ j.key = dedupeKey(reqs'[r].msg)
                                          /\ now - j.at <= QUEUE_DEDUPE_TTL_MS
          /\ ImageHandled(r)' => (Cardinality(JobOf(r)') <= 1 /\ OnlyFromItsJob(r)')
     ]_vars

\* the webhook cache has let the message id through again while the queue
\* still remembers it: the second image has no job
C22_Witness ==
    \E q, r \in Requests :
        /\ q # r
        /\ ImageHandled(q) /\ Cardinality(JobOf(q)) = 1
        /\ ImageHandled(r) /\ JobOf(r) = {}

\* ------------------------------------------------ claims on the media code

\* C23: a buffer whose first 9 bytes are "#!SILK_V3" is classified as silk
\* with no content-type or file-name hint, and a buffer of fewer than 9
\* bytes is never classified as silk, whatever hint comes with it.
C23_SilkDetection ==
    probe.pc = "done" =>
        /\ (Len(probe.in.buffer) >= 9 /\ SubSeq(probe.in.buffer, 1, 9) = SILK_HEADER)
              => probe.out
        /\ Len(probe.in.buffer) < 9 => ~probe.out

\* C24: when decodeSilkVoice gives nothing for a voice message (no candidate
\* decoded, the ffmpeg step failed, or the call threw), the message is still
\* dispatched exactly once, and not with the transcoded audio.
C24_DecodeFailureNotFatal ==
    \A r \in Requests :
        reqs[r].decode \in {"null", "throw"} =>
            /\ reqs[r].calls <= 1
            /\ reqs[r].media # "wav"
            /\ Finished(r) => reqs[r].calls = 1

C26_ThumbJpegWithinLimit ==
    (probe.fn = "normalizeThumbBuffer" /\ probe.pc = "done") =>
        \/ /\ probe.out.buffer.format = "jpeg"
           /\ probe.out.buffer.byteLength <= 50 * 1024
        \/ /\ probe.out.turns = 20
           /\ probe.out.smallest > 50 * 1024
           /\ probe.out.buffer.byteLength = probe.out.smallest

\* C26 (amended): an input of at most 50KB whose content type starts with
\* "image/" is returned unchanged under that content type; any other input
\* is returned as the first JPEG encoding of at most 50KB in the order of the
\* steps, or, when none of the twenty steps met the threshold, as the last
\* attempt (maximum side 160, quality 40).
C26_ThumbWithinLimitOrLastAttempt ==
    (probe.fn = "normalizeThumbBuffer" /\ probe.pc = "done") =>
        IF /\ probe.in.byteLength <= 50 * 1024
           /\ probe.in.contentType \in {"image/png", "image/jpeg; charset=binary", " image/gif "}
        THEN /\ probe.out.turns = 0
             /\ probe.out.buffer = [byteLength |-> probe.in.byteLength, format |-> probe.in.format]
             /\ probe.out.contentType \in {"image/png", "image/jpeg", "image/gif"}
        ELSE /\ probe.out.turns >= 1
             /\ probe.out.buffer.format = "jpeg"
             /\ probe.out.contentType = "image/jpeg"
             /\ \/ probe.out.buffer.byteLength <= 50 * 1024
                \/ /\ probe.out.turns = 20
                   /\ probe.out.maxSide = 160
                   /\ probe.out.quality = 40

C26_Witness ==
    /\ probe.fn = "normalizeThumbBuffer"
    /\ probe.pc = "done"
    /\ probe.in.byteLength = 300000
    /\ probe.out.turns = 20
    /\ probe.out.buffer.byteLength = 60000
    /\ probe.out.smallest = 51201

\* C27: when the encoding of an outbound voice fails at a step of
\* convertAudioToSilk (ffmpeg, frame trimming, the encoder, an empty encoder
\* output), deliverGewePayload goes on to send the staged media with
\* sendFileGewe: it does not fail but for that send, and what it has sent on
\* return is the staged file.
C27_EncodeFailureFallsBackToFile ==
    (probe.fn = "deliverGewePayload" /\ \E i \in 1..Len(probe.out.run) : probe.out.run[i][2] # "ok") =>
        /\ probe.pc \in {"send", "done"}
        /\ probe.out.send = [api |-> "sendFileGewe", url |-> "staged"]
        /\ probe.out.failed \in {"", "sendFileGewe"}
        /\ (probe.pc = "done" /\ probe.out.failed = "") => probe.out.sent = probe.out.send

C27_Witness ==
    /\ probe.fn = "deliverGewePayload"
    /\ probe.pc = "done"
    /\ probe.out.run = <<<<"ffmpeg", "ok">>, <<"statPcm", "ok">>, <<"truncate", "ok">>, <<"encoder", "timeout">>>>
    /\ probe.out.sent = [api |-> "sendFileGewe", url |-> "staged"]

\* C28: with voiceAutoConvert not set, audio that is to go out as voice, is
\* not silk and is staged locally is converted whenever the conversion
\* itself works, and so goes out as a voice message.
C28_VoiceAutoConvertDefaultsOn ==
    (/\ probe.fn = "deliverGewePayload"
     /\ probe.in.voiceAutoConvert = "unset"
     /\ probe.out.converted # "") => probe.out.converted # "null"

\* a call of ensureRustSilkBinary for "latest", resolved to a tag, returns a path
ReturnsLatestPath(c) ==
    /\ callers[c].pc # "done"
    /\ callers'[c].pc = "done"
    /\ callers'[c].result = "path"
    /\ callers'[c].isLatest
    /\ callers'[c].key[2] # "latest"

\* the installs that take a step
Stepping == {i \in 1..Len(installs) : installs'[i] # installs[i]}

UnsafeId(id) ==
    \/ id = <<>>
    \/ \E i \in 1..Len(id) : id[i] \in {"/", "\\"}
    \/ \E i \in 1..(Len(id) - 1) : id[i] = "." /\ id[i + 1] = "."

C31_DuplicateKeepsFirstSeen ==
    [][/\ probe' # probe =>
            LET k == probe'.in.key
                fresh == SEEN_MESSAGES[k] # NONE /\ now - SEEN_MESSAGES[k] <= 12 * 60 * 60 * 1000
            IN /\ fresh => (probe'.out.dup /\ SEEN_MESSAGES'[k] = SEEN_MESSAGES[k])
               /\ ~fresh => (~probe'.out.dup /\ SEEN_MESSAGES'[k] = now)
               /\ \A j \in Keys \ {k} :
                     \/ SEEN_MESSAGES'[j] = SEEN_MESSAGES[j]
                     \/ /\ SEEN_MESSAGES'[j] = NONE
                        /\ now - SEEN_MESSAGES[j] > 12 * 60 * 60 * 1000
       /\ probe' = probe => SEEN_MESSAGES' = SEEN_MESSAGES]_vars

\* a key accepted at 0, turned down since, is accepted again one
\* millisecond after 12 hours
C31_Witness ==
    /\ probe.fn = "isDuplicate"
    /\ probe.pc = "returned"
    /\ probe.out.again
    /\ probe.in.at = 12 * 60 * 60 * 1000 + 1
    /\ SEEN_MESSAGES[probe.in.key] = probe.in.at

\* C32: the delay the worker sleeps before a job is an integer d with
\* minDelayMs <= d <= maxDelayMs; with the maximum below the minimum d is
\* the minimum; d is never negative.
C32_DelayWithinRange ==
    (probe.fn = "nextDelayMs" /\ probe.pc = "sleep") =>
        /\ probe.out \in Nat
        /\ probe.in.minDelayMs <= probe.in.maxDelayMs =>
              (probe.in.minDelayMs <= probe.out /\ probe.out <= probe.in.maxDelayMs)
        /\ probe.in.maxDelayMs < probe.in.minDelayMs => probe.out = probe.in.minDelayMs

\* a minimum of 20000 with the default maximum of 10000: the sleep is 20000
C32_Witness ==
    /\ probe.fn = "nextDelayMs"
    /\ probe.pc = "sleep"
    /\ probe.in = [minDelayMs |-> 20000, maxDelayMs |-> 10000]
    /\ probe.out = 20000

\* ------------------------------------------------- claims on the gate order

\* C33: after the idempotency check the gates apply in the order message
\* type, self message, group allowlist, group sender policy, DM policy,
\* command authorization, mention gate: a message that fails several gates
\* is dropped by the earliest of them, and no later gate is evaluated for
\* it. Here for the head of the order: a message of an unsupported type
\* that is no duplicate is dropped by the message-type gate, a self message
\* of a supported type by the self filter, both having gone through the
\* idempotency check, neither reaching the pairing of the DM policy.
C33_GatePrecedence ==
    \A r \in Requests :
        LET m == reqs[r].msg IN
        (Received(r) /\ reqs[r].dropped # "duplicate") =>
            /\ ~supportedMsgType(m.msgType) => reqs[r].dropped = "msgType"
            /\ (supportedMsgType(m.msgType) /\ isSelf(m)) => reqs[r].dropped = "self"
            /\ (~supportedMsgType(m.msgType) \/ isSelf(m)) =>
                  /\ reqs[r].pc = "done"
                  /\ SEEN_MESSAGES[dedupeKey(m)] # NONE

\* ------------------------------------------------- claims on outbound video

\* C34: for an outbound video, a failure of the duration probe or of the
\* extraction, normalization or staging of the thumbnail never fails the
\* delivery: the configured fallback thumbnail stands in when there is one,
\* and a video still without thumbnail or duration goes out as a file.
C34_VideoPreparationNeverFails ==
    InVideo("threw") =>
        probe.out.failed \notin {"probeVideoDurationSeconds", "generateVideoThumbBuffer",
                                 "normalizeThumbBuffer", "stageThumbBuffer"}

\* ------------------------------------------------- claims on silk decoding

\* the (binary, template) pairs in the order of the claim: binaries in the
\* outer loop, templates in the inner loop
CandidateOrder(bins, templates) ==
    [k \in 1..(Len(bins) * Len(templates)) |->
        <<bins[((k - 1) \div Len(templates)) + 1], templates[((k - 1) % Len(templates)) + 1]>>]

\* C35: the candidates run in the fixed order, binaries outer and templates
\* inner; the search stops at the first candidate that exits 0 and leaves a
\* non-empty output file, runs none after it, goes on after a candidate
\* that throws or exits non-zero, and fails only once every candidate ran.
C35_CandidateSearch ==
    probe.fn = "decodeSilkVoice" =>
        LET out == probe.out
            order == CandidateOrder(out.candidates, out.argTemplates)
        IN /\ Len(out.runs) <= Len(order)
           /\ out.runs = SubSeq(order, 1, Len(out.runs))
           /\ probe.pc = "decoded" <=> out.last = "decoded"
           /\ probe.pc = "failed" => (out.runs = order /\ out.last # "decoded")
           /\ (probe.pc = "loop" /\ out.runs # <<>>) => out.last \in {"0", "1", "reject"}

\* the legacy binaries: the fifth candidate, the first template of the
\* second binary, has decoded after a rejection and a non-zero exit
C35_Witness ==
    /\ InDecode("decoded")
    /\ Len(probe.out.runs) = 5
    /\ probe.out.runs[5] = <<"silk-v3-decoder", <<"{input}", "{output}">> >>

LegacyDecoders == {"silk-decoder", "silk-v3-decoder", "decoder"}

RanBinaries == {probe.out.runs[k][1] : k \in 1..Len(probe.out.runs)}

\* C39: the binaries decodeSilkVoice tries are the configured
\* voiceDecodePath alone when set, the installer not being called; else the
\* installed rust-silk binary alone when the installer returned a path;
\* else the legacy names. After a failure of rust-silk no legacy binary
\* runs.
C39_DecoderBinaries ==
    (probe.fn = "decodeSilkVoice" /\ probe.pc \in {"loop", "decoded", "failed"}) =>
        LET out == probe.out
            customPath == trim(probe.in.voiceDecodePath)
        IN /\ customPath # "" =>
                 (~out.installerCalled /\ RanBinaries \subseteq {customPath})
           /\ (customPath = "" /\ out.rustSilk # "") =>
                 (out.installerCalled /\ RanBinaries \subseteq {out.rustSilk})
           /\ (customPath = "" /\ out.rustSilk = "") =>
                 (out.installerCalled /\ RanBinaries \subseteq LegacyDecoders)
           /\ probe.pc = "failed" =>
                 RanBinaries = (IF customPath # "" THEN {customPath}
                                ELSE IF out.rustSilk # "" THEN {out.rustSilk}
                                ELSE LegacyDecoders)

\* the installed rust-silk binary has failed and the search is over
C39_Witness ==
    /\ InDecode("failed")
    /\ probe.out.rustSilk = RustSilkPath
    /\ probe.out.runs = << <<RustSilkPath, rustArgs>> >>

\* ------------------------------------------------- claims on queue progress

\* C36: every job accepted by enqueue is eventually started: no state is
\* reached with jobs in the queue and no worker loop active, where the
\* queued jobs would run only once a later enqueue restarts the loop; the
\* state after the failure of a job's action included.
C36_NoStrandedJob ==
    Len(queue) > 0 => (running /\ workers # {})

\* ------------------------------------------------- claims on the install caches

\* the install attempts that completed with a returned value
ReturnedInstalls == {i \in 1..Len(installs) : installs[i].pc \in {"then", "settled"}}

\* C37: once an install attempt for a cache key has completed with a
\* returned value, path or null, the value is in resolvedPathCache before
\* the key leaves installCache, and no later call for the key starts
\* another install: a failed install is not retried.
C37_ReturnedValueCachedOnce ==
    /\ \A i \in ReturnedInstalls :
          /\ resolvedPathCache[installs[i].key] = installs[i].result
          /\ installs[i].pc = "then" => installCache[installs[i].key] = i
          /\ \A j \in 1..Len(installs) : installs[j].key = installs[i].key => j <= i
    /\ \A c \in Callers :
          (callers[c].pc = "done" /\ callers[c].inst = 0 /\ callers[c].key[2] # "") =>
              callers[c].result = resolvedPathCache[callers[c].key]

\* an install has failed with null, and a later call for its key got null
\* from the cache without an install of its own
C37_Witness ==
    \E i \in ReturnedInstalls, c \in Callers :
        /\ installs[i].result = "null"
        /\ installs[i].pc = "settled"
        /\ callers[c].pc = "done"
        /\ callers[c].inst = 0
        /\ callers[c].key = installs[i].key
        /\ callers[c].result = "null"
        /\ Len(installs) = 1

\* C38: every non-null path ensureRustSilkBinary returns from
\* resolvedPathCache names a binary that is still on disk, for every
\* interleaving of installs of pinned versions and of "latest": no path
\* the cache holds for a key has had its directory removed by the cleanup
\* of another key's install.
C38_CachedPathOnDisk ==
    /\ \A k \in CacheKeys : resolvedPathCache[k] = "path" => k[2] \in disk
    /\ \A c \in Callers :
          (callers[c].pc = "done" /\ callers[c].inst = 0 /\ callers[c].result = "path") =>
              callers[c].key[2] \in disk

\* ------------------------------------------------- claims on the payload branches

CalledApis == {probe.out.calls[k] : k \in 1..Len(probe.out.calls)}

\* C40: deliverGewePayload sends by the precedence link, media, text: at
\* most one send of a call succeeds; a payload with media and text sends
\* the media and not the text; a payload without link, without media and
\* with blank text returns null and calls no send function.
C40_LinkThenMediaThenText ==
    (probe.fn = "deliverGewePayload/branches" /\ probe.pc # "call") =>
        LET in == probe.in
            out == probe.out
            hasMedia == in.mediaUrl \notin {"", "  "} \/ in.mediaUrls0 \notin {"", "  "}
            hasText == in.text \notin {"", "  "}
        IN /\ Len(out.sent) <= 1
           /\ in.link => CalledApis \subseteq {"sendLinkGewe"}
           /\ (~in.link /\ hasMedia) => CalledApis \subseteq {"sendMedia"}
           /\ (~in.link /\ ~hasMedia /\ hasText) => CalledApis \subseteq {"sendTextGewe"}
           /\ (~in.link /\ ~hasMedia /\ ~hasText) =>
                 (CalledApis = {} /\ probe.pc = "returned" /\ out.result = "null")
           /\ (probe.pc = "returned" /\ out.result = "result") => Len(out.sent) = 1

\* a payload with a media URL in mediaUrls and a text: the media was sent,
\* at the second attempt, and the text was not
C40_Witness ==
    /\ InPayload("returned")
    /\ ~probe.in.link
    /\ probe.in.mediaUrl = "  "
    /\ probe.in.mediaUrls0 = "/tmp/b.png"
    /\ probe.in.text = "hello"
    /\ probe.out.calls = <<"sendMedia", "sendMedia">>
    /\ probe.out.sent = <<"sendMedia">>

====
